---- MODULE Spec2Model ----
(***************************************************************************)
(* Verification model of the dev-space coding agents:                      *)
(*   - the shell command security gate (feature-coding-agent/security.py), *)
(*   - the rate-limit scanner and the backoff scheduler (agent.py of both  *)
(*     agents),                                                            *)
(*   - the progress store (feature-coding-agent/progress.py),              *)
(*   - the session driver run_feature_agent.                               *)
(* Texts are sequences of one-character strings, so that tokenising,       *)
(* splitting and pattern matching are computed character by character.     *)
(***************************************************************************)
EXTENDS Integers, Sequences, FiniteSets, TLC

VARIABLES
    \* ---- security gate ----
    tool_name,        \* input_data["tool_name"]
    command,          \* input_data["tool_input"]["command"]
    decision,         \* what bash_security_hook returned (Pending before the call)
    programs,         \* the programs the submitted command string runs, in order
    argv,             \* the words of a submitted simple command, as the shell reads them
    \* ---- persisted documents ----
    task_file,        \* .feature-agent/task.md
    progress_file,    \* .feature-agent/progress.json
    \* ---- run_feature_agent ----
    pc,               \* position of the driver
    task,             \* the task text the sessions work on
    is_continuation,  \* the local is_continuation
    iteration,        \* the local iteration
    max_iterations,   \* the argument max_iterations (None is 0)
    status,           \* the status run_agent_session returned last
    fault,            \* the exception that ended the driver ("" when none)
    fresh_start,      \* this run found no persisted task
    sessions_started, \* sessions this run has started
    sessions_counted, \* sessions of this run that did not end in rate_limit
    supplied_task,    \* the argument task of this run
    entry_task_file,  \* task.md as this run found it
    entry_progress_file, \* progress.json as this run found it
    prompt,           \* the prompt of the session started last
    runs,             \* runs of the driver started so far
    interrupted,      \* what the interrupted step was writing, if the run was interrupted
    previous_number,  \* the iteration number the last session ran under (0: none yet)
    plain_exception,  \* the last session ended in "except Exception" without rate-limit evidence
    clients,          \* calls of create_client in this run
    delay,            \* seconds slept in the status branch after the last session
    \* ---- save_progress(get_progress()) ----
    original_file,    \* the progress document before the first round trip
    round_trips,      \* completed applications of save_progress(get_progress())
    \* ---- run_agent_session and its RateLimitDetector ----
    stream,           \* everything the session writes to stdout and stderr
    text_start,       \* where the last text of the stream starts (after earlier output)
    written,          \* how much of the stream has been written
    rate_limit_detector, \* the RateLimitDetector of the session
    events,           \* str(msg) of the events of client.receive_response()
    received,         \* how many of the events have been received
    rate_limit_error, \* the local rate_limit_error (None or a text)
    session_exception, \* str(e) of the exception the session is going to raise, if any
    has_raised,       \* the exception was raised
    session_pc,       \* position of run_agent_session
    outcome,          \* the status run_agent_session returned
    classified,       \* how many statuses the session has returned
    split,            \* a write ended inside the last text of the stream
    trimmed,          \* the detector has cut its buffer
    \* ---- "with rate_limit_detector:" over the sessions of one process ----
    sys_stdout_write, \* sys.stdout.write: the detectors whose wrappers stand before the original write
    sys_stderr_write, \* sys.stderr.write, likewise
    original_stdout_write, \* self._original_stdout_write of the session's detector
    original_stderr_write, \* self._original_stderr_write of the session's detector
    scope_pc,         \* position in __enter__, the with block, __exit__ or between sessions
    detectors,        \* how many RateLimitDetector objects the process has made
    installed,        \* the write targets when run_agent_session was entered
    restored,         \* how often __exit__ has assigned each write target in this session
    exit_path,        \* how the session left the with block
    scanned,          \* writes the session's detector has checked
    \* ---- run_autonomous_agent ----
    autonomous_pc,    \* position of run_autonomous_agent
    autonomous_iteration, \* its local iteration
    autonomous_max_iterations, \* its max_iterations (0: None)
    is_first_run,     \* its local is_first_run
    autonomous_prompt, \* the prompt chosen for the last session
    previous_prompt,  \* the prompt chosen for the session before it
    autonomous_status, \* the status the last session returned
    autonomous_sessions, \* sessions the run has started
    \* ---- handle_rate_limit ----
    response,         \* the error text handed to handle_rate_limit
    now,              \* datetime.now(), in ticks since the epoch of the model
    called_at,        \* now at each call of handle_rate_limit
    sleeps,           \* seconds slept by each call
    final,            \* the last call slept its whole wait
    \* ---- countdown_timer ----
    timer_pc,         \* where countdown_timer stands
    timer_seconds,    \* the argument seconds of the call
    timer_interval,   \* the argument update_interval of the call
    remaining,        \* the local variable seconds
    shown,            \* what the line of the display shows
    displays,         \* display updates written
    timer_sleeps,     \* calls of asyncio.sleep
    last_sleep,       \* the argument of the last asyncio.sleep
    slept_total,      \* seconds slept by the call
    cleared,          \* times the line was cleared
    \* ---- the driver's retries after a rate limit ----
    retry_pc,         \* where the loop of run_feature_agent stands
    session_starts,   \* now at the start of each session that followed a wait
    session_outcomes  \* the status each of these sessions returned

gateVars == <<tool_name, command, decision, programs, argv>>
fileVars == <<task_file, progress_file>>
driverVars == <<pc, task, is_continuation, iteration, max_iterations, status, fault,
                fresh_start, sessions_started, sessions_counted, supplied_task,
                entry_task_file, entry_progress_file, prompt, runs, interrupted,
                previous_number, plain_exception, clients, delay>>
storeVars == <<original_file, round_trips>>

sessionVars == <<stream, text_start, written, rate_limit_detector, events, received,
                 rate_limit_error, session_exception, has_raised, session_pc, outcome, classified,
                 split, trimmed>>
scopeVars == <<sys_stdout_write, sys_stderr_write, original_stdout_write,
               original_stderr_write, scope_pc, detectors, installed, restored,
               exit_path, scanned>>
backoffVars == <<response, now, called_at, sleeps, final>>

autoVars == <<autonomous_pc, autonomous_iteration, autonomous_max_iterations, is_first_run,
              autonomous_prompt, previous_prompt, autonomous_status, autonomous_sessions>>

timerVars == <<timer_pc, timer_seconds, timer_interval, remaining, shown, displays,
               timer_sleeps, last_sleep, slept_total, cleared>>

retryVars == <<retry_pc, session_starts, session_outcomes>>

vars == <<gateVars, fileVars, driverVars, storeVars, sessionVars, backoffVars, scopeVars,
          autoVars, timerVars, retryVars>>

(***************************************************************************)
(* Characters and text helpers                                             *)
(***************************************************************************)

\* shlex.whitespace; the characters str.strip() and \s remove among those modelled
Whitespace == {" ", "\t", "\n", "\r"}

\* shlex.quotes
Quotes == {"'", "\""}

Digits == {"0", "1", "2", "3", "4", "5", "6", "7", "8", "9"}

SubSeqFrom(s, i) == IF i > Len(s) THEN <<>> ELSE SubSeq(s, i, Len(s))

RECURSIVE LStrip(_)
LStrip(s) ==
    IF s # <<>> /\ Head(s) \in Whitespace THEN LStrip(Tail(s)) ELSE s

RECURSIVE RStrip(_)
RStrip(s) ==
    IF s # <<>> /\ s[Len(s)] \in Whitespace
    THEN RStrip(SubSeq(s, 1, Len(s) - 1))
    ELSE s

\* str.strip()
Strip(s) == RStrip(LStrip(s))

\* token.startswith(prefix) for a one-character prefix
StartsWith(s, c) == s # <<>> /\ s[1] = c

\* c in token
Contains(s, c) == \E i \in 1..Len(s) : s[i] = c

\* token.lstrip("-")
RECURSIVE LStripDash(_)
LStripDash(s) ==
    IF s # <<>> /\ Head(s) = "-" THEN LStripDash(Tail(s)) ELSE s

\* str.isdigit()
IsDigit(s) == s # <<>> /\ \A i \in 1..Len(s) : s[i] \in Digits

\* os.path.basename: what follows the last "/"
RECURSIVE basename(_)
basename(s) ==
    IF Contains(s, "/") THEN basename(Tail(s)) ELSE s

\* str.split(): the whitespace-separated words of s
RECURSIVE str_split(_, _, _)
str_split(s, cur, out) ==
    IF s = <<>>
    THEN IF cur = <<>> THEN out ELSE Append(out, cur)
    ELSE IF Head(s) \in Whitespace
         THEN str_split(Tail(s), <<>>, IF cur = <<>> THEN out ELSE Append(out, cur))
         ELSE str_split(Tail(s), Append(cur, Head(s)), out)

(***************************************************************************)
(* shlex.split(segment): POSIX mode, whitespace_split, no comments.        *)
(* st is the lexer state: " " between words, "a" inside a word, a quote    *)
(* character inside a quoted span, "\\" after an escape character.         *)
(* The result is [ok, tokens]; ok = FALSE stands for ValueError.           *)
(***************************************************************************)
RECURSIVE shlex_run(_, _, _, _, _, _, _)
shlex_run(s, i, st, est, tok, quoted, out) ==
    IF i > Len(s)
    THEN IF st \in Quotes \/ st = "\\"
         THEN [ok |-> FALSE, tokens |-> <<>>]
         ELSE [ok |-> TRUE,
               tokens |-> IF tok # <<>> \/ quoted THEN Append(out, tok) ELSE out]
    ELSE LET c == s[i] IN
         IF st = " "
         THEN IF c \in Whitespace THEN shlex_run(s, i + 1, " ", est, tok, quoted, out)
              ELSE IF c = "\\" THEN shlex_run(s, i + 1, "\\", "a", tok, quoted, out)
              ELSE IF c \in Quotes THEN shlex_run(s, i + 1, c, est, tok, quoted, out)
              ELSE shlex_run(s, i + 1, "a", est, <<c>>, quoted, out)
         ELSE IF st \in Quotes
         THEN IF c = st THEN shlex_run(s, i + 1, "a", est, tok, TRUE, out)
              ELSE IF c = "\\" /\ st = "\""
                   THEN shlex_run(s, i + 1, "\\", st, tok, TRUE, out)
              ELSE shlex_run(s, i + 1, st, est, Append(tok, c), TRUE, out)
         ELSE IF st = "\\"
         THEN IF est \in Quotes /\ c # "\\" /\ c # est
              THEN shlex_run(s, i + 1, est, est, tok \o <<"\\", c>>, quoted, out)
              ELSE shlex_run(s, i + 1, est, est, Append(tok, c), quoted, out)
         ELSE \* st = "a"
              IF c \in Whitespace
              THEN IF tok # <<>> \/ quoted
                   THEN shlex_run(s, i + 1, " ", est, <<>>, FALSE, Append(out, tok))
                   ELSE shlex_run(s, i + 1, " ", est, tok, quoted, out)
              ELSE IF c \in Quotes THEN shlex_run(s, i + 1, c, est, tok, quoted, out)
              ELSE IF c = "\\" THEN shlex_run(s, i + 1, "\\", "a", tok, quoted, out)
              ELSE shlex_run(s, i + 1, "a", est, Append(tok, c), quoted, out)

shlex_split(s) == shlex_run(s, 1, " ", "a", <<>>, FALSE, <<>>)

(***************************************************************************)
(* security.py                                                             *)
(***************************************************************************)

ALLOWED_COMMANDS ==
    {
      <<"l", "s">>, <<"c", "a", "t">>, <<"h", "e", "a", "d">>,
      <<"t", "a", "i", "l">>, <<"w", "c">>, <<"g", "r", "e", "p">>,
      <<"f", "i", "n", "d">>, <<"t", "r", "e", "e">>, <<"c", "p">>,
      <<"m", "v">>, <<"m", "k", "d", "i", "r">>, <<"c", "h", "m", "o", "d">>,
      <<"t", "o", "u", "c", "h">>, <<"p", "w", "d">>, <<"c", "d">>,
      <<"n", "p", "m">>, <<"n", "p", "x">>, <<"p", "n", "p", "m">>,
      <<"p", "n", "p", "x">>, <<"y", "a", "r", "n">>, <<"n", "o", "d", "e">>,
      <<"b", "u", "n">>, <<"p", "y", "t", "h", "o", "n">>, <<"p", "y", "t", "h", "o", "n", "3">>,
      <<"p", "i", "p">>, <<"p", "i", "p", "3">>, <<"p", "o", "e", "t", "r", "y">>,
      <<"u", "v">>, <<"u", "v", "x">>, <<"g", "i", "t">>,
      <<"m", "a", "k", "e">>, <<"c", "a", "r", "g", "o">>, <<"g", "o">>,
      <<"d", "o", "t", "n", "e", "t">>, <<"p", "s">>, <<"l", "s", "o", "f">>,
      <<"s", "l", "e", "e", "p">>, <<"p", "k", "i", "l", "l">>, <<"k", "i", "l", "l">>,
      <<"p", "y", "t", "e", "s", "t">>, <<"j", "e", "s", "t">>, <<"v", "i", "t", "e", "s", "t">>,
      <<"m", "o", "c", "h", "a">>, <<"e", "c", "h", "o">>, <<"w", "h", "i", "c", "h">>,
      <<"e", "n", "v">>, <<"e", "x", "p", "o", "r", "t">>, <<"s", "o", "u", "r", "c", "e">>,
      <<"c", "u", "r", "l">>, <<"w", "g", "e", "t">>
    }

PKILL == <<"p", "k", "i", "l", "l">>
KILL == <<"k", "i", "l", "l">>
CHMOD == <<"c", "h", "m", "o", "d">>

COMMANDS_NEEDING_EXTRA_VALIDATION == {PKILL, KILL, CHMOD}

\* Tokens that extract_commands takes as command boundaries
OperatorTokens == {<<"|">>, <<"|", "|">>, <<"&", "&">>, <<"&">>}

\* The reserved words without "do"
ShellKeywordsWithoutDo ==
    {
      <<"i", "f">>, <<"t", "h", "e", "n">>, <<"e", "l", "s", "e">>,
      <<"e", "l", "i", "f">>, <<"f", "i">>, <<"f", "o", "r">>,
      <<"w", "h", "i", "l", "e">>, <<"u", "n", "t", "i", "l">>,
      <<"d", "o", "n", "e">>, <<"c", "a", "s", "e">>, <<"e", "s", "a", "c">>,
      <<"i", "n">>, <<"!">>, <<"{">>, <<"}">>
    }

\* Reserved words that extract_commands skips
ShellKeywords ==
    {
      <<"i", "f">>, <<"t", "h", "e", "n">>, <<"e", "l", "s", "e">>,
      <<"e", "l", "i", "f">>, <<"f", "i">>, <<"f", "o", "r">>,
      <<"w", "h", "i", "l", "e">>, <<"u", "n", "t", "i", "l">>, <<"d", "o">>,
      <<"d", "o", "n", "e">>, <<"c", "a", "s", "e">>, <<"e", "s", "a", "c">>,
      <<"i", "n">>, <<"!">>, <<"{">>, <<"}">>
    }

\* A ";" at position j is matched by (?<!["'])\s*;\s*(?!["']) exactly when
\* neither neighbouring character is a quote: the match can start at the ";"
\* itself and can give back trailing whitespace.
SemicolonMatches(s, j) ==
    /\ s[j] = ";"
    /\ (j = 1 \/ s[j - 1] \notin Quotes)
    /\ (j = Len(s) \/ s[j + 1] \notin Quotes)

\* re.split on the ";" pattern.  The whitespace the pattern consumes around
\* the ";" stays in the pieces here; every caller strips each piece.
RECURSIVE split_semicolon(_, _, _, _)
split_semicolon(s, i, cur, out) ==
    IF i > Len(s) THEN Append(out, cur)
    ELSE IF SemicolonMatches(s, i)
         THEN split_semicolon(s, i + 1, <<>>, Append(out, cur))
         ELSE split_semicolon(s, i + 1, Append(cur, s[i]), out)

\* re.split on \s*(?:&&|\|\|)\s*, leftmost matches first; the surrounding
\* whitespace stays in the pieces and is stripped by the caller.
RECURSIVE split_and_or(_, _, _, _)
split_and_or(s, i, cur, out) ==
    IF i > Len(s) THEN Append(out, cur)
    ELSE IF i < Len(s) /\ s[i] \in {"&", "|"} /\ s[i + 1] = s[i]
         THEN split_and_or(s, i + 2, <<>>, Append(out, cur))
         ELSE split_and_or(s, i + 1, Append(cur, s[i]), out)

\* The stripped, non-empty pieces of a list of pieces
RECURSIVE StripNonEmpty(_)
StripNonEmpty(pieces) ==
    IF pieces = <<>> THEN <<>>
    ELSE LET sub == Strip(Head(pieces)) IN
         (IF sub # <<>> THEN <<sub>> ELSE <<>>) \o StripNonEmpty(Tail(pieces))

RECURSIVE split_segments_of(_)
split_segments_of(segments) ==
    IF segments = <<>> THEN <<>>
    ELSE StripNonEmpty(split_semicolon(Head(segments), 1, <<>>, <<>>))
         \o split_segments_of(Tail(segments))

split_command_segments(command_string) ==
    split_segments_of(split_and_or(command_string, 1, <<>>, <<>>))

\* The token loop of extract_commands for one segment
RECURSIVE scan_tokens(_, _, _)
scan_tokens(tokens, expect_command, commands) ==
    IF tokens = <<>> THEN commands
    ELSE LET token == Head(tokens) IN
         IF token \in OperatorTokens THEN scan_tokens(Tail(tokens), TRUE, commands)
         ELSE IF token \in ShellKeywords
              THEN scan_tokens(Tail(tokens), expect_command, commands)
         ELSE IF StartsWith(token, "-")
              THEN scan_tokens(Tail(tokens), expect_command, commands)
         ELSE IF Contains(token, "=") /\ ~StartsWith(token, "=")
              THEN scan_tokens(Tail(tokens), expect_command, commands)
         ELSE IF expect_command
              THEN scan_tokens(Tail(tokens), FALSE, Append(commands, basename(token)))
              ELSE scan_tokens(Tail(tokens), expect_command, commands)

\* extract_commands that skips a segment shlex cannot split
RECURSIVE extract_from_skipping_unparsable(_, _)
extract_from_skipping_unparsable(segments, commands) ==
    IF segments = <<>> THEN commands
    ELSE LET segment == Strip(Head(segments)) IN
         IF segment = <<>> THEN extract_from_skipping_unparsable(Tail(segments), commands)
         ELSE LET sh == shlex_split(segment) IN
              IF ~sh.ok \/ sh.tokens = <<>>
              THEN extract_from_skipping_unparsable(Tail(segments), commands)
              ELSE extract_from_skipping_unparsable(Tail(segments),
                                                    scan_tokens(sh.tokens, TRUE, commands))

\* The segment loop of extract_commands: a segment that shlex cannot split
\* makes the whole result empty.
RECURSIVE extract_from(_, _)
extract_from(segments, commands) ==
    IF segments = <<>> THEN commands
    ELSE LET segment == Strip(Head(segments)) IN
         IF segment = <<>> THEN extract_from(Tail(segments), commands)
         ELSE LET sh == shlex_split(segment) IN
              IF ~sh.ok THEN <<>>
              ELSE IF sh.tokens = <<>> THEN extract_from(Tail(segments), commands)
              ELSE extract_from(Tail(segments), scan_tokens(sh.tokens, TRUE, commands))

extract_commands(command_string) ==
    extract_from(split_semicolon(command_string, 1, <<>>, <<>>), <<>>)

\* allowed_process_names of validate_pkill_command
allowed_process_names ==
    {
      <<"n", "o", "d", "e">>, <<"n", "p", "m">>, <<"n", "p", "x">>,
      <<"p", "n", "p", "m">>, <<"y", "a", "r", "n">>, <<"v", "i", "t", "e">>,
      <<"n", "e", "x", "t">>, <<"p", "y", "t", "h", "o", "n">>,
      <<"p", "y", "t", "h", "o", "n", "3">>, <<"p", "y", "t", "e", "s", "t">>,
      <<"u", "v", "i", "c", "o", "r", "n">>, <<"g", "u", "n", "i", "c", "o", "r", "n">>
    }

\* allowed_signals of validate_kill_command
allowed_signals ==
    {
      <<"-", "T", "E", "R", "M">>, <<"-", "I", "N", "T">>, <<"-", "H", "U", "P">>,
      <<"-", "1", "5">>, <<"-", "2">>, <<"-", "1">>, <<"-", "9">>
    }

\* [t for t in tokens if not t.startswith("-")]
RECURSIVE NonFlagTokens(_)
NonFlagTokens(tokens) ==
    IF tokens = <<>> THEN <<>>
    ELSE (IF StartsWith(Head(tokens), "-") THEN <<>> ELSE <<Head(tokens)>>)
         \o NonFlagTokens(Tail(tokens))

\* A validator's result: (allowed, reason), or an exception that escapes it
Verdict(allowed, reason) == [allowed |-> allowed, reason |-> reason, raised |-> FALSE]
Raised(exception) == [allowed |-> FALSE, reason |-> exception, raised |-> TRUE]

validate_pkill_command(command_string) ==
    LET sh == shlex_split(command_string) IN
    IF ~sh.ok THEN Verdict(FALSE, "Could not parse pkill command")
    ELSE IF sh.tokens = <<>> THEN Verdict(FALSE, "Empty pkill command")
    ELSE LET args == NonFlagTokens(Tail(sh.tokens)) IN
         IF args = <<>> THEN Verdict(FALSE, "pkill requires a process name")
         ELSE LET last == args[Len(args)]
                  words == str_split(last, <<>>, <<>>)
              IN  IF Contains(last, " ") /\ words = <<>>
                  THEN Raised("IndexError")
                  ELSE LET target == IF Contains(last, " ") THEN words[1] ELSE last IN
                       IF target \in allowed_process_names
                       THEN Verdict(TRUE, "")
                       ELSE Verdict(FALSE, "pkill only allowed for dev processes")

\* re.match(r"^[ugoa]*\+x$", mode); "$" also matches before one final newline
ModeIsPlusX(mode) ==
    LET core == IF mode # <<>> /\ mode[Len(mode)] = "\n"
                THEN SubSeq(mode, 1, Len(mode) - 1)
                ELSE mode
    IN  /\ Len(core) >= 2
        /\ core[Len(core) - 1] = "+"
        /\ core[Len(core)] = "x"
        /\ \A i \in 1..(Len(core) - 2) : core[i] \in {"u", "g", "o", "a"}

validate_chmod_command(command_string) ==
    LET sh == shlex_split(command_string) IN
    IF ~sh.ok THEN Verdict(FALSE, "Could not parse chmod command")
    ELSE IF sh.tokens = <<>> \/ sh.tokens[1] # CHMOD
         THEN Verdict(FALSE, "Not a chmod command")
    ELSE LET rest == Tail(sh.tokens) IN
         IF \E i \in 1..Len(rest) : StartsWith(rest[i], "-")
         THEN Verdict(FALSE, "chmod flags are not allowed")
         ELSE IF rest = <<>> THEN Verdict(FALSE, "chmod requires a mode")
         ELSE IF Tail(rest) = <<>> THEN Verdict(FALSE, "chmod requires at least one file")
         ELSE IF ~ModeIsPlusX(rest[1])
              THEN Verdict(FALSE, "chmod only allowed with +x mode")
         ELSE Verdict(TRUE, "")

\* validate_kill_command that also rejects a word that is no number
validate_kill_command_checking_words(command_string) ==
    LET sh == shlex_split(command_string) IN
    IF ~sh.ok THEN Verdict(FALSE, "Could not parse kill command")
    ELSE IF sh.tokens = <<>> THEN Verdict(FALSE, "Empty kill command")
    ELSE LET rest == Tail(sh.tokens) IN
         IF \E i \in 1..Len(rest) :
                /\ rest[i] \notin allowed_signals
                /\ ~IsDigit(LStripDash(rest[i]))
         THEN Verdict(FALSE, "kill signal not allowed")
         ELSE Verdict(TRUE, "")

validate_kill_command(command_string) ==
    LET sh == shlex_split(command_string) IN
    IF ~sh.ok THEN Verdict(FALSE, "Could not parse kill command")
    ELSE IF sh.tokens = <<>> THEN Verdict(FALSE, "Empty kill command")
    ELSE LET rest == Tail(sh.tokens) IN
         IF \E i \in 1..Len(rest) :
                /\ StartsWith(rest[i], "-")
                /\ rest[i] \notin allowed_signals
                /\ ~IsDigit(LStripDash(rest[i]))
         THEN Verdict(FALSE, "kill signal not allowed")
         ELSE Verdict(TRUE, "")

\* The first segment whose extracted commands contain cmd, "" if there is none
RECURSIVE get_command_for_validation(_, _)
get_command_for_validation(cmd, segments) ==
    IF segments = <<>> THEN <<>>
    ELSE LET segment_commands == extract_commands(Head(segments)) IN
         IF \E i \in 1..Len(segment_commands) : segment_commands[i] = cmd
         THEN Head(segments)
         ELSE get_command_for_validation(cmd, Tail(segments))

\* The hook's results
Allow == [decision |-> "allow", reason |-> ""]
Block(reason) == [decision |-> "block", reason |-> reason]
HookRaised(exception) == [decision |-> "raise", reason |-> exception]
Pending == [decision |-> "pending", reason |-> ""]

ParseFailureReason == "Could not parse command for security validation"
NotAllowedReason == "Command is not in the allowed commands list"

\* The loop "for cmd in commands" of bash_security_hook
RECURSIVE check_commands(_, _, _)
check_commands(commands, segments, whole) ==
    IF commands = <<>> THEN Allow
    ELSE LET cmd == Head(commands) IN
         IF cmd \notin ALLOWED_COMMANDS THEN Block(NotAllowedReason)
         ELSE IF cmd \in COMMANDS_NEEDING_EXTRA_VALIDATION
         THEN LET found == get_command_for_validation(cmd, segments)
                  cmd_segment == IF found = <<>> THEN whole ELSE found
                  verdict == IF cmd = PKILL THEN validate_pkill_command(cmd_segment)
                             ELSE IF cmd = KILL THEN validate_kill_command(cmd_segment)
                             ELSE validate_chmod_command(cmd_segment)
              IN  IF verdict.raised THEN HookRaised(verdict.reason)
                  ELSE IF ~verdict.allowed THEN Block(verdict.reason)
                  ELSE check_commands(Tail(commands), segments, whole)
         ELSE check_commands(Tail(commands), segments, whole)

\* bash_security_hook(input_data) as a function of tool_name and command
security_decision(tool, cmd_string) ==
    IF tool # "Bash" THEN Allow
    ELSE IF cmd_string = <<>> THEN Allow
    ELSE LET commands == extract_commands(cmd_string) IN
         IF commands = <<>> THEN Block(ParseFailureReason)
         ELSE check_commands(commands, split_command_segments(cmd_string), cmd_string)

(***************************************************************************)
(* Python values held in the progress record and the JSON text of          *)
(* progress.json.  A JSON text is a sequence of tokens, so that json.dump  *)
(* and json.load are real conversions: a truncated or foreign text does    *)
(* not load, and a compact text is rewritten with indentation.             *)
(***************************************************************************)

PyInt(n) == [py |-> "int", v |-> n]
PyStr(s) == [py |-> "str", v |-> s]
PyNone == [py |-> "None", v |-> 0]
PyList(items) == [py |-> "list", v |-> items]
\* A dict is its items in insertion order, each [k |-> key, v |-> value]
PyDict(items) == [py |-> "dict", v |-> items]

DictHas(d, key) == \E i \in 1..Len(d.v) : d.v[i].k = key

\* dict.get(key, default)
DictGet(d, key, default) ==
    IF DictHas(d, key)
    THEN d.v[CHOOSE i \in 1..Len(d.v) : d.v[i].k = key].v
    ELSE default

\* d[key] = value: replaces in place, or inserts at the end
DictSet(d, key, value) ==
    IF DictHas(d, key)
    THEN PyDict([i \in 1..Len(d.v) |->
                    IF d.v[i].k = key THEN [k |-> key, v |-> value] ELSE d.v[i]])
    ELSE PyDict(Append(d.v, [k |-> key, v |-> value]))

Punct(s) == [t |-> "punct", s |-> s, n |-> 0]
StrTok(s) == [t |-> "str", s |-> s, n |-> 0]
NumTok(n) == [t |-> "num", s |-> "", n |-> n]
NullTok == [t |-> "null", s |-> "null", n |-> 0]
\* A newline followed by the indentation of the given nesting level
Newline(level) == [t |-> "ws", s |-> "\n", n |-> level]
Space == [t |-> "ws", s |-> " ", n |-> 0]
\* Characters that start no JSON token
Junk == [t |-> "junk", s |-> "#", n |-> 0]

\* json.dump(value, f, indent=2) at nesting level `level`
RECURSIVE json_dump(_, _)
RECURSIVE dump_items(_, _, _)
RECURSIVE dump_members(_, _, _)
RECURSIVE dump_members_without_separator(_, _, _)

dump_items(items, i, level) ==
    IF i > Len(items) THEN <<>>
    ELSE (IF i > 1 THEN <<Punct(",")>> ELSE <<>>)
         \o <<Newline(level)>> \o json_dump(items[i], level)
         \o dump_items(items, i + 1, level)

\* dump_members that writes no "," between the members
dump_members_without_separator(items, i, level) ==
    IF i > Len(items) THEN <<>>
    ELSE <<Newline(level), StrTok(items[i].k), Punct(":"), Space>>
         \o json_dump(items[i].v, level)
         \o dump_members_without_separator(items, i + 1, level)

dump_members(items, i, level) ==
    IF i > Len(items) THEN <<>>
    ELSE (IF i > 1 THEN <<Punct(",")>> ELSE <<>>)
         \o <<Newline(level), StrTok(items[i].k), Punct(":"), Space>>
         \o json_dump(items[i].v, level)
         \o dump_members(items, i + 1, level)

json_dump(value, level) ==
    IF value.py = "int" THEN <<NumTok(value.v)>>
    ELSE IF value.py = "str" THEN <<StrTok(value.v)>>
    ELSE IF value.py = "None" THEN <<NullTok>>
    ELSE IF value.py = "list"
         THEN IF value.v = <<>> THEN <<Punct("["), Punct("]")>>
              ELSE <<Punct("[")>> \o dump_items(value.v, 1, level + 1)
                   \o <<Newline(level), Punct("]")>>
    ELSE IF value.v = <<>> THEN <<Punct("{"), Punct("}")>>
         ELSE <<Punct("{")>> \o dump_members(value.v, 1, level + 1)
              \o <<Newline(level), Punct("}")>>

\* The tokens of a text without the whitespace between them
RECURSIVE SkipWhitespace(_)
SkipWhitespace(text) ==
    IF text = <<>> THEN <<>>
    ELSE (IF Head(text).t = "ws" THEN <<>> ELSE <<Head(text)>>)
         \o SkipWhitespace(Tail(text))

ParseError == [ok |-> FALSE, value |-> PyNone, next |-> 0]
Parsed(value, next) == [ok |-> TRUE, value |-> value, next |-> next]

IsPunct(toks, i, s) == i <= Len(toks) /\ toks[i] = Punct(s)

\* The JSON decoder: parse_value reads one value at token i
RECURSIVE parse_value(_, _)
RECURSIVE parse_items(_, _, _)
RECURSIVE parse_members(_, _, _)

\* After "[" or ",": a value, then "," or "]"
parse_items(toks, i, acc) ==
    LET r == parse_value(toks, i) IN
    IF ~r.ok THEN ParseError
    ELSE IF IsPunct(toks, r.next, ",")
         THEN parse_items(toks, r.next + 1, Append(acc, r.value))
    ELSE IF IsPunct(toks, r.next, "]")
         THEN Parsed(PyList(Append(acc, r.value)), r.next + 1)
    ELSE ParseError

\* After "{" or ",": a string key, ":", a value, then "," or "}"
parse_members(toks, i, acc) ==
    IF ~(i <= Len(toks) /\ toks[i].t = "str" /\ IsPunct(toks, i + 1, ":"))
    THEN ParseError
    ELSE LET r == parse_value(toks, i + 2) IN
         IF ~r.ok THEN ParseError
         ELSE LET d == DictSet(acc, toks[i].s, r.value) IN
              IF IsPunct(toks, r.next, ",") THEN parse_members(toks, r.next + 1, d)
              ELSE IF IsPunct(toks, r.next, "}") THEN Parsed(d, r.next + 1)
              ELSE ParseError

parse_value(toks, i) ==
    IF i > Len(toks) THEN ParseError
    ELSE IF toks[i].t = "num" THEN Parsed(PyInt(toks[i].n), i + 1)
    ELSE IF toks[i].t = "str" THEN Parsed(PyStr(toks[i].s), i + 1)
    ELSE IF toks[i].t = "null" THEN Parsed(PyNone, i + 1)
    ELSE IF IsPunct(toks, i, "[")
         THEN IF IsPunct(toks, i + 1, "]") THEN Parsed(PyList(<<>>), i + 2)
              ELSE parse_items(toks, i + 1, <<>>)
    ELSE IF IsPunct(toks, i, "{")
         THEN IF IsPunct(toks, i + 1, "}") THEN Parsed(PyDict(<<>>), i + 2)
              ELSE parse_members(toks, i + 1, PyDict(<<>>))
    ELSE ParseError

\* json.load(f): ok = FALSE stands for json.JSONDecodeError
json_load(text) ==
    LET toks == SkipWhitespace(text)
        r == parse_value(toks, 1)
    IN  IF r.ok /\ r.next = Len(toks) + 1 THEN r ELSE ParseError

(***************************************************************************)
(* progress.py                                                             *)
(***************************************************************************)

\* States of a persisted document
Absent == [kind |-> "absent", text |-> <<>>]
\* The file exists and cannot be opened (IOError)
Unreadable == [kind |-> "unreadable", text |-> <<>>]
TextFile(text) == [kind |-> "text", text |-> text]

\* The record get_progress returns when it cannot load one
DefaultProgress ==
    PyDict(<<[k |-> "status", v |-> PyStr("pending")],
             [k |-> "criteria", v |-> PyList(<<>>)],
             [k |-> "completed_criteria", v |-> PyList(<<>>)],
             [k |-> "sessions", v |-> PyInt(0)]>>)

get_progress(file) ==
    IF file.kind = "absent" THEN DefaultProgress
    ELSE IF file.kind = "unreadable" THEN DefaultProgress
    ELSE LET r == json_load(file.text) IN
         IF r.ok THEN r.value ELSE DefaultProgress

\* save_progress: [raised, file]; a file that cannot be opened raises
save_progress(file, progress) ==
    IF file.kind = "unreadable"
    THEN [raised |-> TRUE, file |-> file]
    ELSE [raised |-> FALSE, file |-> TextFile(json_dump(progress, 0))]

\* is_task_complete: progress.get("status") == "completed";
\* a loaded value without .get raises AttributeError
is_task_complete(file) ==
    LET progress == get_progress(file) IN
    IF progress.py # "dict" THEN [raised |-> TRUE, complete |-> FALSE]
    ELSE LET stored == DictGet(progress, "status", PyNone) IN
         [raised |-> FALSE,
          complete |-> stored.py = "str" /\ stored.v = "completed"]

\* print_progress_summary reads the record with .get: TRUE when that raises
print_progress_summary_raises(file) == get_progress(file).py # "dict"

\* None, as load_task returns it
NoTask == [some |-> FALSE, text |-> <<>>]

\* load_task that never finds a task
load_task_finds_none(file) == NoTask

\* load_task: the task text, or None when task.md does not exist
load_task(file) ==
    IF file.kind = "text" THEN [some |-> TRUE, text |-> file.text] ELSE NoTask

\* save_task: task.md holds the task text
save_task(task_text) == TextFile(task_text)

(***************************************************************************)
(* agent.py (both agents): RateLimitDetector                               *)
(***************************************************************************)

\* The output of a session is a sequence of runs, Run(c, n) standing for the
\* character c written n times. Only the filler character "x" is repeated:
\* API_ERROR_PATTERN names no "x", and its "." and [^"] accept every "x", so a
\* run is matched like one character while all of its characters count in len.
Run(c, n) == [c |-> c, n |-> n]

Chars(s) == [i \in 1..Len(s) |-> Run(s[i], 1)]

Filler(n) == <<Run("x", n)>>

\* len(text)
RECURSIVE len(_)
len(text) == IF text = <<>> THEN 0 ELSE Head(text).n + len(Tail(text))

\* a + b on texts (adjacent runs of one character are one run)
Concat(a, b) ==
    IF a = <<>> THEN b
    ELSE IF b = <<>> THEN a
    ELSE LET l == a[Len(a)]
             r == b[1]
         IN  IF l.c = r.c /\ l.c = "x"
             THEN SubSeq(a, 1, Len(a) - 1) \o <<Run(l.c, l.n + r.n)>> \o Tail(b)
             ELSE a \o b

\* A slice that keeps the whole text
WholeText(text, k) == text

\* text[-k:] for k > 0
RECURSIVE LastChars(_, _)
LastChars(text, k) ==
    IF text = <<>> THEN <<>>
    ELSE LET last == text[Len(text)] IN
         IF last.n >= k THEN <<Run(last.c, k)>>
         ELSE LastChars(SubSeq(text, 1, Len(text) - 1), k - last.n) \o <<last>>

\* The literal lit stands at position i of text
LitAt(text, i, lit) ==
    /\ i >= 1
    /\ i + Len(lit) - 1 <= Len(text)
    /\ \A j \in 1..Len(lit) : text[i + j - 1].c = lit[j] /\ text[i + j - 1].n = 1

\* \s* from position i: the first position that holds no whitespace
RECURSIVE SkipSpaces(_, _)
SkipSpaces(text, i) ==
    IF i <= Len(text) /\ text[i].c \in Whitespace THEN SkipSpaces(text, i + 1) ELSE i

\* key\s*:\s*value matched from position i: the position after the match, 0
\* when there is none
KeyValueEnd(text, i, key, value) ==
    IF ~LitAt(text, i, key) THEN 0
    ELSE LET a == SkipSpaces(text, i + Len(key)) IN
         IF ~LitAt(text, a, <<":">>) THEN 0
         ELSE LET b == SkipSpaces(text, a + 1) IN
              IF LitAt(text, b, value) THEN b + Len(value) ELSE 0

TYPE_KEY ==
    <<"\"", "t", "y", "p", "e", "\"">>

ERROR_VALUE ==
    <<"\"", "e", "r", "r", "o", "r", "\"">>

MESSAGE_KEY ==
    <<"\"", "m", "e", "s", "s", "a", "g", "e", "\"">>

RESET_AT ==
    <<"r", "e", "s", "e", "t", " ", "a", "t", " ">>

\* \d{4}-\d{2}-\d{2} \d{2}:\d{2}:\d{2}, "d" standing for \d
TIMESTAMP_SHAPE ==
    <<"d", "d", "d", "d", "-", "d", "d", "-", "d", "d", " ",
      "d", "d", ":", "d", "d", ":", "d", "d">>

TimestampAt(text, i) ==
    /\ i >= 1
    /\ i + Len(TIMESTAMP_SHAPE) - 1 <= Len(text)
    /\ \A j \in 1..Len(TIMESTAMP_SHAPE) :
          /\ text[i + j - 1].n = 1
          /\ IF TIMESTAMP_SHAPE[j] = "d" THEN text[i + j - 1].c \in Digits
             ELSE text[i + j - 1].c = TIMESTAMP_SHAPE[j]

\* reset at \d{4}-\d{2}-\d{2} \d{2}:\d{2}:\d{2} matched from position i
ResetAt(text, i) == LitAt(text, i, RESET_AT) /\ TimestampAt(text, i + Len(RESET_AT))

\* No position of a..b-1 holds the character ch
NoneBetween(text, a, b, ch) == \A p \in a..(b - 1) : text[p].c # ch

\* API_ERROR_PATTERN.search(text) finds a match, looking for the message field
\* only: the pattern without its "type"\s*:\s*"error".* part
API_ERROR_PATTERN_search_message_only(text) ==
    \E j \in 1..Len(text) :
        LET m == KeyValueEnd(text, j, MESSAGE_KEY, <<"\"">>) IN
        /\ m # 0
        /\ \E k \in m..Len(text) :
              /\ text[k].c = "r"
              /\ ResetAt(text, k)
              /\ NoneBetween(text, m, k, "\"")

\* API_ERROR_PATTERN.search(text) finds a match:
\* "type"\s*:\s*"error"  .*  "message"\s*:\s*"  [^"]*  reset at <timestamp>
API_ERROR_PATTERN_search(text) ==
    \E i \in 1..Len(text) :
        LET e == KeyValueEnd(text, i, TYPE_KEY, ERROR_VALUE) IN
        /\ e # 0
        /\ \E j \in e..Len(text) :
              LET m == KeyValueEnd(text, j, MESSAGE_KEY, <<"\"">>) IN
              /\ m # 0
              /\ NoneBetween(text, e, j, "\n")
              /\ \E k \in m..Len(text) :
                    /\ text[k].c = "r"
                    /\ ResetAt(text, k)
                    /\ NoneBetween(text, m, k, "\"")

\* len(self._buffer) > 2000
BufferLimit == 2000
\* self._buffer[-1000:]
BufferTail == 1000

\* A RateLimitDetector after __init__
Detector(buf, detected, message) ==
    [buffer |-> buf, rate_limit_detected |-> detected, error_message |-> message]

NewDetector == Detector(<<>>, FALSE, <<>>)

\* _check_for_rate_limit that matches the written chunk instead of the buffer
check_for_rate_limit_on_chunk(self, text) ==
    LET appended == Concat(self.buffer, text)
        found == API_ERROR_PATTERN_search(text)
    IN  Detector(IF len(appended) > BufferLimit THEN LastChars(appended, BufferTail)
                 ELSE appended,
                 self.rate_limit_detected \/ found,
                 IF found THEN appended ELSE self.error_message)

\* _check_for_rate_limit that records only what the present buffer shows
check_for_rate_limit_forgetting(self, text) ==
    LET appended == Concat(self.buffer, text)
        found == API_ERROR_PATTERN_search(appended)
    IN  Detector(IF len(appended) > BufferLimit THEN LastChars(appended, BufferTail)
                 ELSE appended,
                 found,
                 IF found THEN appended ELSE <<>>)

\* RateLimitDetector._check_for_rate_limit(self, text)
check_for_rate_limit(self, text) ==
    LET appended == Concat(self.buffer, text)
        found == API_ERROR_PATTERN_search(appended)
    IN  Detector(IF len(appended) > BufferLimit THEN LastChars(appended, BufferTail)
                 ELSE appended,
                 self.rate_limit_detected \/ found,
                 IF found THEN appended ELSE self.error_message)

\* is_api_rate_limit_error(text) of run_agent_session
is_api_rate_limit_error(text) == API_ERROR_PATTERN_search(text)

\* Optional[str]: None, or a text
NoText == [some |-> FALSE, text |-> <<>>]
SomeText(t) == [some |-> TRUE, text |-> t]


(***************************************************************************)
(* The values a component's variables hold while another component runs    *)
(***************************************************************************)

\* No session has been sent a prompt
NoPrompt == [template |-> "", TASK_DESCRIPTION |-> <<>>]

\* The run has not been interrupted
NotInterrupted == [step |-> "", task_written |-> Absent, progress_written |-> Absent,
                   task_before |-> Absent, progress_before |-> Absent]

DriverIdle ==
    /\ pc = "idle"
    /\ task = <<>>
    /\ is_continuation = FALSE
    /\ iteration = 0
    /\ max_iterations = 0
    /\ status = ""
    /\ fault = ""
    /\ fresh_start = FALSE
    /\ sessions_started = 0
    /\ sessions_counted = 0
    /\ supplied_task = <<>>
    /\ entry_task_file = Absent
    /\ entry_progress_file = Absent
    /\ prompt = NoPrompt
    /\ runs = 0
    /\ interrupted = NotInterrupted
    /\ previous_number = 0
    /\ plain_exception = FALSE
    /\ clients = 0
    /\ delay = 0

StoreIdle ==
    /\ original_file = Absent
    /\ round_trips = 0

GateIdle ==
    /\ tool_name = "Bash"
    /\ command = <<>>
    /\ programs = <<>>
    /\ argv = <<>>
    /\ decision = Pending

FilesIdle ==
    /\ task_file = Absent
    /\ progress_file = Absent

SessionIdle ==
    /\ stream = <<>>
    /\ text_start = 1
    /\ written = 0
    /\ rate_limit_detector = NewDetector
    /\ events = <<>>
    /\ received = 0
    /\ rate_limit_error = NoText
    /\ session_exception = NoText
    /\ has_raised = FALSE
    /\ session_pc = "idle"
    /\ outcome = ""
    /\ classified = 0
    /\ split = FALSE
    /\ trimmed = FALSE

BackoffIdle ==
    /\ response = <<>>
    /\ now = 0
    /\ called_at = <<>>
    /\ sleeps = <<>>
    /\ final = FALSE

\* None, as RateLimitDetector.__init__ sets the saved write targets
NoTarget == [some |-> FALSE, target |-> <<>>]

ScopeIdle ==
    /\ sys_stdout_write = <<>>
    /\ sys_stderr_write = <<>>
    /\ original_stdout_write = NoTarget
    /\ original_stderr_write = NoTarget
    /\ scope_pc = "idle"
    /\ detectors = 0
    /\ installed = [stdout |-> <<>>, stderr |-> <<>>]
    /\ restored = [stdout |-> 0, stderr |-> 0]
    /\ exit_path = ""
    /\ scanned = 0

AutonomousIdle ==
    /\ autonomous_pc = "idle"
    /\ autonomous_iteration = 0
    /\ autonomous_max_iterations = 0
    /\ is_first_run = FALSE
    /\ autonomous_prompt = ""
    /\ previous_prompt = ""
    /\ autonomous_status = ""
    /\ autonomous_sessions = 0

\* The line of the display before anything is written to it
NothingShown == [hours |-> 0, minutes |-> 0, secs |-> 0, format |-> "none"]

\* No countdown_timer has been called
TimerIdle ==
    /\ timer_pc = "idle"
    /\ timer_seconds = 0
    /\ timer_interval = 0
    /\ remaining = 0
    /\ shown = NothingShown
    /\ displays = 0
    /\ timer_sleeps = 0
    /\ last_sleep = 0
    /\ slept_total = 0
    /\ cleared = 0

\* No session has been rate limited
RetryIdle ==
    /\ retry_pc = "idle"
    /\ session_starts = <<>>
    /\ session_outcomes = <<>>

(***************************************************************************)
(* Command strings submitted to the gate                                   *)
(***************************************************************************)

\* Largest number of simple commands chained in one command string
MaxChain == 2

\* How a program is written, and the program the shell runs for it
ProgramForms ==
    {
      [text |-> <<"l", "s">>, name |-> <<"l", "s">>],
      [text |-> <<"r", "m">>, name |-> <<"r", "m">>],
      [text |-> <<"/", "b", "i", "n", "/", "r", "m">>, name |-> <<"r", "m">>]
    }

\* Argument lists: none, a flag, a double-quoted word
ArgumentForms == { <<>>, <<" ", "-", "a">>, <<" ", "\"", "a", "\"">> }

\* The chaining operators, written without and with surrounding whitespace
ChainOperators ==
    {
      <<";">>, <<" ", ";", " ">>,
      <<"&", "&">>, <<" ", "&", "&", " ">>,
      <<"|", "|">>, <<" ", "|", "|", " ">>
    }

\* A chain of n simple commands: its text and the programs it runs, in order
RECURSIVE Chains(_)
Chains(n) ==
    IF n = 0 THEN { [text |-> <<>>, programs |-> <<>>] }
    ELSE { [text |-> (IF c.text = <<>> THEN <<>> ELSE c.text \o op) \o p.text \o a,
            programs |-> Append(c.programs, p.name)] :
               c \in Chains(n - 1), op \in ChainOperators,
               p \in ProgramForms, a \in ArgumentForms }

\* Command strings with an unterminated quote, and blank command strings
OddInputs ==
    {
      <<>>,
      <<" ">>,
      <<" ", "\t", " ">>,
      <<"\"">>,
      <<"l", "s", " ", "\"", "a">>,
      <<"l", "s", " ", "'", "a">>,
      <<"l", "s", " ", ";", " ", "l", "s", " ", "\"", "a">>,
      <<"l", "s", " ", "&", "&", " ", "l", "s", " ", "'", "a">>,
      <<"l", "s", " ", "\"", "a", " ", ";", " ", "l", "s">>,
      <<"l", "s", " ", "\"", "a", "\"", " ", "'">>,
      <<"l", "s", " ", "a", "\\">>
    }


\* A word of a command: how it is written and what the shell reads
Plain(w) == [text |-> w, word |-> w]
Quoted(q, w) == [text |-> <<q>> \o w \o <<q>>, word |-> w]

\* Most arguments after the program in one simple command
MaxArgs == 3

\* Arguments tried with kill: signals by name and by number, a PID, a name
KillWords ==
    {
      Plain(<<"-", "9">>),
      Plain(<<"-", "T", "E", "R", "M">>),
      Plain(<<"-", "K", "I", "L", "L">>),
      Plain(<<"-", "S", "T", "O", "P">>),
      Plain(<<"-", "1", "9">>),
      Plain(<<"-", "3">>),
      Plain(<<"1", "2">>),
      Plain(<<"n", "o", "d", "e">>)
    }

\* Arguments tried with chmod: modes, a flag, a file
ChmodWords ==
    {
      Plain(<<"+", "x">>),
      Plain(<<"u", "+", "x">>),
      Plain(<<"7", "5", "5">>),
      Plain(<<"-", "x">>),
      Plain(<<"=", "x">>),
      Plain(<<"u", "+", "x", ",", "g", "+", "x">>),
      Plain(<<"-", "R">>),
      Plain(<<"f">>),
      Quoted("'", <<"+", "x", "\n">>)
    }

\* Arguments tried with pkill: process names, a flag, quoted targets
PkillWords ==
    {
      Plain(<<"n", "o", "d", "e">>),
      Plain(<<"v", "i", "t", "e">>),
      Plain(<<"r", "m">>),
      Plain(<<"-", "f">>),
      Quoted("\"", <<"n", "o", "d", "e", " ", "x">>),
      Quoted("\"", <<"r", "m", " ", "n", "o", "d", "e">>),
      Quoted("'", <<"n", "o", "d", "e", "\t", "x">>),
      Quoted("'", <<" ">>),
      Quoted("'", <<>>)
    }

\* Arguments tried with echo: quoted words with and without separators inside
EchoWords ==
    {
      Plain(<<"a">>),
      Quoted("\"", <<"a", "b">>),
      Quoted("\"", <<"a", ";", "b">>),
      Quoted("'", <<"a", ";", "b">>),
      Quoted("\"", <<"a", " ", ";", " ", "b">>),
      Quoted("\"", <<"a", "&", "&", "b">>),
      Quoted("'", <<"a", "|", "|", "b">>),
      Quoted("\"", <<";">>)
    }

ECHO == <<"e", "c", "h", "o">>

SimplePrograms ==
    {
      [name |-> KILL, words |-> KillWords],
      [name |-> CHMOD, words |-> ChmodWords],
      [name |-> PKILL, words |-> PkillWords],
      [name |-> ECHO, words |-> EchoWords]
    }

\* The argument lists of at most n words over a set of word forms
RECURSIVE ArgLists(_, _)
ArgLists(words, n) ==
    IF n = 0 THEN { <<>> }
    ELSE ArgLists(words, n - 1)
             \cup { Append(l, w) : l \in ArgLists(words, n - 1), w \in words }

\* The text of a simple command: its words separated by one space
RECURSIVE JoinArgs(_)
JoinArgs(args) ==
    IF args = <<>> THEN <<>> ELSE <<" ">> \o Head(args).text \o JoinArgs(Tail(args))

\* One program with up to MaxArgs arguments
SimpleCommands ==
    UNION { { [text |-> p.name \o JoinArgs(args),
               programs |-> <<p.name>>,
               argv |-> <<p.name>> \o [i \in 1..Len(args) |-> args[i].word]] :
                  args \in ArgLists(p.words, MaxArgs) } :
            p \in SimplePrograms }

\* A simple command written with plain words
Invocation(name, args) ==
    [text |-> name \o JoinArgs([i \in 1..Len(args) |-> Plain(args[i])]), name |-> name]

\* Invocations of the scrutinized programs that keep their rule and that
\* break it, and one of a program without a rule
CompoundParts ==
    {
      Invocation(CHMOD, << <<"+", "x">>, <<"f">> >>),
      Invocation(CHMOD, << <<"7", "5", "5">>, <<"f">> >>),
      Invocation(KILL, << <<"-", "9">>, <<"1", "2">> >>),
      Invocation(KILL, << <<"-", "S", "T", "O", "P">>, <<"1", "2">> >>),
      Invocation(PKILL, << <<"n", "o", "d", "e">> >>),
      Invocation(PKILL, << <<"r", "m">> >>),
      Invocation(ECHO, << <<"a">> >>)
    }

\* What stands between the two invocations of a compound command
CompoundOperators ==
    { <<" ", "&", "&", " ">>, <<" ", "|", "|", " ">>, <<" ", ";", " ">>, <<" ", "|", " ">> }

\* Two invocations in one command string
CompoundCommands ==
    { [text |-> a.text \o op \o b.text, parts |-> <<a, b>>] :
          a \in CompoundParts, op \in CompoundOperators, b \in CompoundParts }

\* Most words in a command string made of loose words
MaxTokens == 3

\* Words tried with extract_commands: programs with and without a path,
\* reserved words, a flag, assignments, operators, a path whose basename is
\* a reserved word
TokenWords ==
    {
      <<"l", "s">>,
      <<"/", "b", "i", "n", "/", "r", "m">>,
      <<"i", "f">>,
      <<"d", "o">>,
      <<"-", "a">>,
      <<"A", "=", "1">>,
      <<"=", "x">>,
      <<"|">>,
      <<"&", "&">>,
      <<";">>,
      <<"/", "b", "i", "n", "/", "i", "f">>
    }

\* The sequences of 1 to n words over a set of words
RECURSIVE WordLists(_, _)
WordLists(words, n) ==
    IF n = 0 THEN {}
    ELSE { <<w>> : w \in words }
             \cup { Append(l, w) : l \in WordLists(words, n - 1), w \in words }

\* Command strings of up to MaxTokens words separated by one space
TokenCommands ==
    { [text |-> SubSeqFrom(JoinArgs([i \in 1..Len(l) |-> Plain(l[i])]), 2),
       programs |-> <<>>, argv |-> l] : l \in WordLists(TokenWords, MaxTokens) }

\* What stands between two lines of a command string
LineSeparators == { <<"\n">>, <<" ", "\n", " ">> }

\* Two simple commands on two lines: the text, the same commands separated
\* by ";" and the programs the shell runs, in order
LineCommands ==
    { [text |-> a.text \o sep \o b.text,
       with_semicolon |-> a.text \o <<";">> \o b.text,
       lines |-> a.programs \o b.programs] :
          a \in Chains(1), sep \in LineSeparators, b \in Chains(1) }

\* The words are recorded for the simple commands and the loose words only
GateInputs ==
    { [text |-> c.text, programs |-> c.programs, argv |-> <<>>] :
          c \in UNION { Chains(n) : n \in 1..MaxChain }
                    \cup { [text |-> t, programs |-> <<>>] : t \in OddInputs } }
        \cup SimpleCommands
        \cup { [text |-> c.text, programs |-> <<c.parts[1].name, c.parts[2].name>>,
                argv |-> <<>>] : c \in CompoundCommands }
        \cup TokenCommands
        \cup { [text |-> c.text, programs |-> <<>>, argv |-> <<>>] : c \in LineCommands }

ToolNames == {"Bash", "Read"}

GateInit ==
    /\ AutonomousIdle
    /\ TimerIdle
    /\ RetryIdle
    /\ ScopeIdle
    /\ \E input \in GateInputs :
        /\ tool_name \in ToolNames
        /\ command = input.text
        /\ programs = input.programs
        /\ argv = input.argv
        /\ decision = Pending
    /\ FilesIdle
    /\ DriverIdle
    /\ StoreIdle
    /\ SessionIdle
    /\ BackoffIdle

\* The pre-tool-use hook runs once on the submitted request
bash_security_hook ==
    /\ decision = Pending
    /\ decision' = security_decision(tool_name, command)
    /\ UNCHANGED <<tool_name, command, programs, argv>>
    /\ UNCHANGED <<fileVars, driverVars, storeVars, sessionVars, backoffVars, scopeVars,
                   autoVars, timerVars,
                   retryVars>>

GateNext == bash_security_hook

SpecGate == GateInit /\ [][GateNext]_vars

(***************************************************************************)
(* Bounds of the driver model and the documents it may find                *)
(***************************************************************************)

\* Sessions one run of the driver may start
MaxSessions == 3

\* Largest max_iterations argument tried
MaxIterationCap == 2

\* Largest session count found in a pre-existing progress document
MaxStoredSessions == 1

\* Runs of the driver on one repository
MaxRuns == 2

\* Sessions a run after the first may start
MaxLaterSessions == 1

\* Task descriptions, each a text of one line
TaskTexts == {<<"task A">>, <<"task B">>}

ProgressStatuses == {"pending", "in_progress", "completed"}

\* A record with the documented fields
ProgressRecord(st, criteria, done, n) ==
    PyDict(<<[k |-> "status", v |-> PyStr(st)],
             [k |-> "criteria", v |-> PyList(criteria)],
             [k |-> "completed_criteria", v |-> PyList(done)],
             [k |-> "sessions", v |-> PyInt(n)]>>)

StoredRecords ==
    { ProgressRecord(st, c.criteria, c.done, n) :
        st \in ProgressStatuses,
        c \in { [criteria |-> <<>>, done |-> <<>>],
                [criteria |-> <<PyStr("c1")>>, done |-> <<>>],
                [criteria |-> <<PyStr("c1")>>, done |-> <<PyInt(0)>>] },
        n \in 0..MaxStoredSessions }

\* json text without indentation, as another writer may produce it
compact_dump(value) == SkipWhitespace(json_dump(value, 0))

\* Texts that are not the JSON text of a record
ForeignTexts ==
    {
      <<>>,
      <<Junk>>,
      <<Punct("{"), Newline(1), StrTok("status"), Punct(":")>>,
      <<Punct("["), NumTok(1), Punct(","), Punct("]")>>,
      compact_dump(DefaultProgress) \o <<Junk>>,
      <<Punct("["), Punct("]")>>,
      <<NumTok(3)>>,
      <<NullTok>>,
      <<StrTok("done")>>,
      <<Punct("{"), Punct("}")>>,
      <<Punct("{"), StrTok("status"), Punct(":"), StrTok("completed"), Punct(","),
        StrTok("sessions"), Punct(":"), NumTok(2), Punct("}")>>,
      compact_dump(PyDict(<<[k |-> "status", v |-> PyStr("in_progress")]>>)),
      compact_dump(PyDict(<<[k |-> "status", v |-> PyStr("in_progress")],
                            [k |-> "sessions", v |-> PyStr("two")]>>)),
      compact_dump(PyDict(<<[k |-> "sessions", v |-> PyInt(1)],
                            [k |-> "sessions", v |-> PyInt(0)]>>))
    }

\* The progress documents a round trip may find
ProgressFiles ==
    {Absent, Unreadable}
        \cup { TextFile(json_dump(r, 0)) : r \in StoredRecords }
        \cup { TextFile(compact_dump(r)) : r \in StoredRecords }
        \cup { TextFile(t) : t \in ForeignTexts }

\* The progress documents a run of the driver may find
DriverProgressFiles ==
    {Absent, Unreadable}
        \cup { TextFile(json_dump(ProgressRecord(st, <<>>, <<>>, n), 0)) :
                   st \in ProgressStatuses, n \in 0..MaxStoredSessions }
        \cup { TextFile(t) : t \in ForeignTexts }

TaskFiles == {Absent} \cup { TextFile(t) : t \in TaskTexts }

(***************************************************************************)
(* agent.py: run_agent_session's result and run_feature_agent              *)
(***************************************************************************)

\* What one session observed: an exception escaped the query or the event
\* stream; its text matches API_ERROR_PATTERN; the detector saw the pattern
\* on stdout/stderr; an event's text matched the pattern
SessionFact(raised, exception_matches, detected, event_matches) ==
    [raised |-> raised, exception_matches |-> exception_matches,
     detected |-> detected, event_matches |-> event_matches]

SessionFacts ==
    {
      SessionFact(FALSE, FALSE, FALSE, FALSE),
      SessionFact(FALSE, FALSE, TRUE, FALSE),
      SessionFact(FALSE, FALSE, FALSE, TRUE),
      SessionFact(TRUE, FALSE, FALSE, FALSE),
      SessionFact(TRUE, TRUE, FALSE, FALSE),
      SessionFact(TRUE, FALSE, TRUE, FALSE)
    }

\* session_status whose except clause returns "continue"
session_status_ignoring_exception(facts, file) ==
    IF facts.detected \/ facts.event_matches \/ (facts.raised /\ facts.exception_matches)
    THEN "rate_limit"
    ELSE "continue"

\* The status run_agent_session returns (the statements after the with block
\* and the except clause); is_task_complete is read inside the try block
session_status(facts, file) ==
    IF facts.raised
    THEN IF facts.exception_matches THEN "rate_limit"
         ELSE IF facts.detected THEN "rate_limit"
         ELSE "error"
    ELSE IF facts.detected THEN "rate_limit"
    ELSE IF facts.event_matches THEN "rate_limit"
    ELSE LET done == is_task_complete(file) IN
         IF done.raised THEN "error"
         ELSE IF done.complete THEN "complete"
         ELSE "continue"

\* The coding agent rewrites the status of a progress record it can read
agent_update(file, st) ==
    IF file.kind # "text" THEN file
    ELSE LET r == json_load(file.text) IN
         IF r.ok /\ r.value.py = "dict"
         THEN TextFile(compact_dump(DictSet(r.value, "status", PyStr(st))))
         ELSE file

\* initialize_progress that leaves the stored session count as it is
initialize_progress_keeping_sessions(progress) ==
    IF progress.py # "dict"
    THEN [raised |-> "TypeError", progress |-> progress]
    ELSE [raised |-> "", progress |-> DictSet(progress, "status", PyStr("in_progress"))]

\* progress["status"] = "in_progress"; progress["sessions"] = 0
\* (TypeError when the loaded value is no dict)
initialize_progress(progress) ==
    IF progress.py # "dict"
    THEN [raised |-> "TypeError", progress |-> progress]
    ELSE [raised |-> "",
          progress |-> DictSet(DictSet(progress, "status", PyStr("in_progress")),
                               "sessions", PyInt(0))]

\* progress["sessions"] = progress.get("sessions", 0) + 1
increment_sessions(progress) ==
    IF progress.py # "dict"
    THEN [raised |-> "AttributeError", progress |-> progress]
    ELSE LET n == DictGet(progress, "sessions", PyInt(0)) IN
         IF n.py # "int"
         THEN [raised |-> "TypeError", progress |-> progress]
         ELSE [raised |-> "", progress |-> DictSet(progress, "sessions", PyInt(n.v + 1))]

\* get_feature_prompt: the template feature_prompt with the task filled in
\* (is_continuation is not used)
get_feature_prompt(task_text, continuation) ==
    [template |-> "feature_prompt", TASK_DESCRIPTION |-> task_text]

\* AUTO_CONTINUE_DELAY_SECONDS of agent.py
AUTO_CONTINUE_DELAY_SECONDS == 3

\* The iteration number is left as it is after a rate limit
retry_without_decrement(n) == n

\* "iteration -= 1  # Retry same session"
retry_same_session(n) == n - 1

\* The cap is never reached
reached_max_iterations_never(cap, n) == FALSE

\* The test of the cap made one pass late
reached_max_iterations_late(cap, n) == cap # 0 /\ n > cap + 1

\* max_iterations and iteration > max_iterations (None is 0)
reached_max_iterations(cap, n) == cap # 0 /\ n > cap

Crash(exception) == pc' = "crashed" /\ fault' = exception

\* run_feature_agent up to the main loop: continue the persisted task, or
\* persist the new task and initialise the progress record
run_feature_agent(new_task, cap) ==
    /\ pc = "idle"
    /\ runs < MaxRuns
    /\ runs' = runs + 1
    /\ iteration' = 0
    /\ max_iterations' = cap
    /\ supplied_task' = new_task
    /\ entry_task_file' = task_file
    /\ entry_progress_file' = progress_file
    /\ LET existing_task == load_task(task_file) IN
       IF existing_task.some
       THEN /\ task' = existing_task.text
            /\ is_continuation' = TRUE
            /\ fresh_start' = FALSE
            /\ UNCHANGED <<task_file, progress_file>>
            /\ IF print_progress_summary_raises(progress_file)
               THEN Crash("AttributeError")
               ELSE pc' = "loop" /\ UNCHANGED fault
       ELSE /\ task' = new_task
            /\ is_continuation' = FALSE
            /\ fresh_start' = TRUE
            /\ task_file' = save_task(new_task)
            /\ LET init == initialize_progress(get_progress(progress_file))
                   saved == save_progress(progress_file, init.progress)
               IN  IF init.raised # ""
                   THEN Crash(init.raised) /\ UNCHANGED progress_file
                   ELSE IF saved.raised
                   THEN Crash("PermissionError") /\ UNCHANGED progress_file
                   ELSE /\ progress_file' = saved.file
                        /\ pc' = "loop"
                        /\ UNCHANGED fault
    /\ UNCHANGED <<status, sessions_started, sessions_counted, prompt, interrupted,
                   previous_number, plain_exception, clients, delay>>
    /\ UNCHANGED <<gateVars, storeVars, sessionVars, backoffVars, scopeVars,
                   autoVars, timerVars,
                   retryVars>>

\* Top of the loop: count the iteration, stop at the cap, else add one to
\* the persisted session count
begin_iteration ==
    /\ pc = "loop"
    /\ iteration' = iteration + 1
    /\ IF reached_max_iterations(max_iterations, iteration + 1)
       THEN /\ pc' = "summary"
            /\ UNCHANGED <<progress_file, fault, sessions_started, clients>>
       ELSE /\ sessions_started < (IF runs = 1 THEN MaxSessions ELSE MaxLaterSessions)
            /\ LET inc == increment_sessions(get_progress(progress_file))
                   saved == save_progress(progress_file, inc.progress)
               IN  IF inc.raised # ""
                   THEN /\ Crash(inc.raised)
                        /\ UNCHANGED <<progress_file, sessions_started, clients>>
                   ELSE IF saved.raised
                   THEN /\ Crash("PermissionError")
                        /\ UNCHANGED <<progress_file, sessions_started, clients>>
                   ELSE /\ progress_file' = saved.file
                        /\ pc' = "session"
                        /\ sessions_started' = sessions_started + 1
                        /\ clients' = clients + 1
                        /\ UNCHANGED fault
    /\ UNCHANGED <<task_file, task, is_continuation, max_iterations, status,
                   fresh_start, sessions_counted>>
    /\ UNCHANGED <<supplied_task, entry_task_file, entry_progress_file, prompt, runs, interrupted>>
    /\ UNCHANGED <<previous_number, plain_exception, delay>>
    /\ UNCHANGED <<gateVars, storeVars, sessionVars, backoffVars, scopeVars,
                   autoVars, timerVars,
                   retryVars>>

\* One session: the prompt is sent, the agent works (and may rewrite the
\* status of the progress record), run_agent_session returns a status
run_agent_session(facts, agent_status) ==
    /\ pc = "session"
    /\ prompt' = get_feature_prompt(task, is_continuation)
    /\ is_continuation' = TRUE
    /\ progress_file' = IF agent_status = "none" THEN progress_file
                        ELSE agent_update(progress_file, agent_status)
    /\ status' = session_status(facts, progress_file')
    /\ sessions_counted' = IF status' = "rate_limit" THEN sessions_counted
                           ELSE sessions_counted + 1
    /\ previous_number' = iteration
    /\ plain_exception' = (facts.raised /\ ~facts.exception_matches /\ ~facts.detected)
    /\ pc' = "handle"
    /\ UNCHANGED <<task_file, task, iteration, max_iterations, fault,
                   fresh_start, sessions_started>>
    /\ UNCHANGED <<supplied_task, entry_task_file, entry_progress_file, runs, interrupted>>
    /\ UNCHANGED <<clients, delay>>
    /\ UNCHANGED <<gateVars, storeVars, sessionVars, backoffVars, scopeVars,
                   autoVars, timerVars,
                   retryVars>>

\* The branch on the returned status
handle_status ==
    /\ pc = "handle"
    /\ IF status = "complete"
       THEN pc' = "summary" /\ delay' = 0 /\ UNCHANGED <<iteration, fault>>
       ELSE IF status = "continue"
       THEN IF print_progress_summary_raises(progress_file)
            THEN Crash("AttributeError") /\ delay' = 0 /\ UNCHANGED iteration
            ELSE /\ pc' = "loop"
                 /\ delay' = AUTO_CONTINUE_DELAY_SECONDS
                 /\ UNCHANGED <<iteration, fault>>
       ELSE IF status = "rate_limit"
       THEN /\ pc' = "loop"
            /\ iteration' = retry_same_session(iteration)
            /\ delay' = 0
            /\ UNCHANGED fault
       ELSE /\ pc' = "loop"
            /\ delay' = AUTO_CONTINUE_DELAY_SECONDS
            /\ UNCHANGED <<iteration, fault>>
    /\ UNCHANGED <<task_file, progress_file, task, is_continuation, max_iterations,
                   status, fresh_start, sessions_started, sessions_counted>>
    /\ UNCHANGED <<supplied_task, entry_task_file, entry_progress_file, prompt, runs, interrupted>>
    /\ UNCHANGED <<previous_number, plain_exception, clients>>
    /\ UNCHANGED <<gateVars, storeVars, sessionVars, backoffVars, scopeVars,
                   autoVars, timerVars,
                   retryVars>>

\* The final summary after the loop
final_summary ==
    /\ pc = "summary"
    /\ IF print_progress_summary_raises(progress_file)
       THEN Crash("AttributeError")
       ELSE pc' = "done" /\ UNCHANGED fault
    /\ UNCHANGED <<task_file, progress_file, task, is_continuation, iteration,
                   max_iterations, status, fresh_start, sessions_started,
                   sessions_counted>>
    /\ UNCHANGED <<supplied_task, entry_task_file, entry_progress_file, prompt, runs, interrupted>>
    /\ UNCHANGED <<previous_number, plain_exception, clients, delay>>
    /\ UNCHANGED <<gateVars, storeVars, sessionVars, backoffVars, scopeVars,
                   autoVars, timerVars,
                   retryVars>>

\* Where a write of the chunks of a text may be cut: before the first chunk,
\* after the first, after the last
WriteCuts(text) == {0, 1, Len(text)} \cap 0..Len(text)

\* open(file, "w") empties the document, the chunks reach it when the file
\* is closed: what an interrupted write of text may leave of a document
InterruptedWrites(before, text) ==
    {before} \cup { TextFile(SubSeq(text, 1, n)) : n \in WriteCuts(text) }

Interrupted(step, task_written, progress_written) ==
    [step |-> step, task_written |-> task_written, progress_written |-> progress_written,
     task_before |-> task_file, progress_before |-> progress_file]

\* An interrupt ends the run before it reaches the main loop: in save_task,
\* in save_progress, or where nothing is written
interrupt_start(new_task) ==
    /\ pc = "idle"
    /\ runs < MaxRuns
    /\ runs' = runs + 1
    /\ supplied_task' = new_task
    /\ entry_task_file' = task_file
    /\ entry_progress_file' = progress_file
    /\ pc' = "interrupted"
    /\ fault' = "KeyboardInterrupt"
    /\ IF load_task(task_file).some
       THEN /\ UNCHANGED <<task_file, progress_file>>
            /\ interrupted' = Interrupted("idle", task_file, progress_file)
       ELSE LET init == initialize_progress(get_progress(progress_file))
                saved == save_progress(progress_file, init.progress)
            IN  \/ /\ task_file' \in InterruptedWrites(task_file, new_task)
                   /\ UNCHANGED progress_file
                   /\ interrupted' = Interrupted("save_task", save_task(new_task),
                                                 progress_file)
                \/ /\ init.raised = ""
                   /\ ~saved.raised
                   /\ task_file' = save_task(new_task)
                   /\ progress_file' \in InterruptedWrites(progress_file, saved.file.text)
                   /\ interrupted' = Interrupted("save_progress", save_task(new_task),
                                                 saved.file)
    /\ UNCHANGED <<task, is_continuation, iteration, max_iterations, status, fresh_start,
                   sessions_started, sessions_counted, prompt>>
    /\ UNCHANGED <<previous_number, plain_exception, clients, delay>>
    /\ UNCHANGED <<gateVars, storeVars, sessionVars, backoffVars, scopeVars,
                   autoVars, timerVars,
                   retryVars>>

\* An interrupt ends the run at the top of the loop, in save_progress
interrupt_save ==
    /\ pc = "loop"
    /\ ~reached_max_iterations(max_iterations, iteration + 1)
    /\ LET inc == increment_sessions(get_progress(progress_file))
           saved == save_progress(progress_file, inc.progress)
       IN  /\ inc.raised = ""
           /\ ~saved.raised
           /\ progress_file' \in InterruptedWrites(progress_file, saved.file.text)
           /\ interrupted' = Interrupted("save_progress", task_file, saved.file)
    /\ pc' = "interrupted"
    /\ fault' = "KeyboardInterrupt"
    /\ UNCHANGED <<task_file, task, is_continuation, iteration, max_iterations, status,
                   fresh_start, sessions_started, sessions_counted, supplied_task,
                   entry_task_file, entry_progress_file, prompt, runs>>
    /\ UNCHANGED <<previous_number, plain_exception, clients, delay>>
    /\ UNCHANGED <<gateVars, storeVars, sessionVars, backoffVars, scopeVars,
                   autoVars, timerVars,
                   retryVars>>

\* An interrupt ends the run during a session or a wait, where the driver
\* writes nothing
interrupt_wait ==
    /\ pc \in {"session", "handle"}
    /\ interrupted' = Interrupted(pc, task_file, progress_file)
    /\ pc' = "interrupted"
    /\ fault' = "KeyboardInterrupt"
    /\ UNCHANGED <<task_file, progress_file, task, is_continuation, iteration,
                   max_iterations, status, fresh_start, sessions_started,
                   sessions_counted, supplied_task, entry_task_file,
                   entry_progress_file, prompt, runs>>
    /\ UNCHANGED <<previous_number, plain_exception, clients, delay>>
    /\ UNCHANGED <<gateVars, storeVars, sessionVars, backoffVars, scopeVars,
                   autoVars, timerVars,
                   retryVars>>

\* The process has ended and the command is run again on the same repository
restart ==
    /\ pc \in {"done", "crashed", "interrupted"}
    /\ runs < MaxRuns
    /\ pc' = "idle"
    /\ task' = <<>>
    /\ is_continuation' = FALSE
    /\ iteration' = 0
    /\ max_iterations' = 0
    /\ status' = ""
    /\ fault' = ""
    /\ fresh_start' = FALSE
    /\ sessions_started' = 0
    /\ sessions_counted' = 0
    /\ supplied_task' = <<>>
    /\ entry_task_file' = Absent
    /\ entry_progress_file' = Absent
    /\ prompt' = NoPrompt
    /\ interrupted' = NotInterrupted
    /\ previous_number' = 0
    /\ plain_exception' = FALSE
    /\ clients' = 0
    /\ delay' = 0
    /\ UNCHANGED <<runs, fileVars, gateVars, storeVars, sessionVars, backoffVars, scopeVars,
                   autoVars, timerVars,
                   retryVars>>

AgentStatuses == {"none", "in_progress", "completed"}

DriverInit ==
    /\ AutonomousIdle
    /\ TimerIdle
    /\ RetryIdle
    /\ ScopeIdle
    /\ task_file \in TaskFiles
    /\ progress_file \in DriverProgressFiles
    /\ DriverIdle
    /\ StoreIdle
    /\ GateIdle
    /\ SessionIdle
    /\ BackoffIdle

\* The steps of one run
RunNext ==
    \/ \E new_task \in TaskTexts, cap \in 0..MaxIterationCap :
           run_feature_agent(new_task, cap)
    \/ begin_iteration
    \/ \E facts \in SessionFacts, agent_status \in AgentStatuses :
           run_agent_session(facts, agent_status)
    \/ handle_status
    \/ final_summary

DriverNext ==
    \/ RunNext
    \/ \E new_task \in TaskTexts : interrupt_start(new_task)
    \/ interrupt_save
    \/ interrupt_wait
    \/ restart

SpecDriver == DriverInit /\ [][DriverNext]_vars

\* The runs of the driver on a repository that holds neither task.md nor
\* progress.json before the first of them
EmptyRepositoryInit == DriverInit /\ task_file = Absent /\ progress_file = Absent

SpecEmptyRepository == EmptyRepositoryInit /\ [][DriverNext]_vars

\* Every step of a run changes pc, and a run can take a step exactly where
\* this action is enabled
Advance ==
    /\ pc \in {"idle", "loop", "session", "handle", "summary"}
    /\ pc = "idle" => runs < MaxRuns
    /\ pc = "loop" =>
           \/ reached_max_iterations(max_iterations, iteration + 1)
           \/ sessions_started < (IF runs = 1 THEN MaxSessions ELSE MaxLaterSessions)
    /\ pc' \in {"loop", "session", "handle", "summary", "done", "crashed"}
    /\ pc' # pc

\* One run that is not interrupted: the driver is one sequential task, every
\* step it has reached is taken and every session it awaits returns (weak
\* fairness of RunNext, stated on the position of the run)
SpecRun == DriverInit /\ [][RunNext]_vars /\ WF_pc(Advance)

(***************************************************************************)
(* The round trip save_progress(get_progress()) on a stored document       *)
(***************************************************************************)

\* Round trips applied to one document
MaxRoundTrips == 2

\* save_progress(repo_dir, get_progress(repo_dir))
save_loaded_progress ==
    /\ round_trips < MaxRoundTrips
    /\ LET saved == save_progress(progress_file, get_progress(progress_file)) IN
       /\ ~saved.raised
       /\ progress_file' = saved.file
    /\ round_trips' = round_trips + 1
    /\ UNCHANGED <<task_file, original_file>>
    /\ UNCHANGED <<gateVars, driverVars, sessionVars, backoffVars, scopeVars,
                   autoVars, timerVars,
                   retryVars>>

\* The same call on a document that cannot be opened: save_progress raises
save_loaded_progress_raises ==
    /\ round_trips < MaxRoundTrips
    /\ save_progress(progress_file, get_progress(progress_file)).raised
    /\ fault' = "PermissionError"
    /\ UNCHANGED <<pc, task, is_continuation, iteration, max_iterations, status,
                   fresh_start, sessions_started, sessions_counted>>
    /\ UNCHANGED <<supplied_task, entry_task_file, entry_progress_file, prompt, runs, interrupted>>
    /\ UNCHANGED <<previous_number, plain_exception, clients, delay>>
    /\ UNCHANGED <<fileVars, storeVars, gateVars, sessionVars, backoffVars, scopeVars,
                   autoVars, timerVars,
                   retryVars>>

StoreInit ==
    /\ AutonomousIdle
    /\ TimerIdle
    /\ RetryIdle
    /\ ScopeIdle
    /\ task_file = Absent
    /\ progress_file \in ProgressFiles
    /\ original_file = progress_file
    /\ round_trips = 0
    /\ DriverIdle
    /\ GateIdle
    /\ SessionIdle
    /\ BackoffIdle

StoreNext ==
    \/ save_loaded_progress
    \/ save_loaded_progress_raises

SpecStore == StoreInit /\ [][StoreNext]_vars

(***************************************************************************)
(* agent.py: run_agent_session with its RateLimitDetector                  *)
(***************************************************************************)

\* The error-type marker, and the same with spaces around the colon
TYPE_ERROR ==
    <<"\"", "t", "y", "p", "e", "\"", ":", "\"", "e", "r", "r", "o", "r", "\"">>

TYPE_ERROR_SPACED ==
    <<"\"", "t", "y", "p", "e", "\"", " ", ":", " ", "\"", "e", "r", "r", "o",
      "r", "\"">>

\* The start of the message field
MESSAGE_OPEN ==
    <<",", "\"", "m", "e", "s", "s", "a", "g", "e", "\"", ":", "\"">>

\* The end of the message the API sends
RESET_TEXT ==
    <<"r", "e", "s", "e", "t", " ", "a", "t", " ", "2", "0", "2", "5", "-",
      "1", "2", "-", "1", "1", " ", "1", "8", ":", "1", "8", ":", "4", "4">>

\* A structured rate-limit error: marker, gap, message field up to the
\* timestamp; gap and padding are filler that lengthens the text
StructuredError(marker, gap, padding) ==
    Chars(marker) \o gap \o Chars(MESSAGE_OPEN) \o padding \o Chars(RESET_TEXT)

\* The filler that makes a structured error 1000 characters long, the tail
\* the detector keeps
FillToTail == BufferTail - Len(StructuredError(TYPE_ERROR, <<>>, <<>>))

\* Texts that match API_ERROR_PATTERN
MatchingTexts ==
    {
      StructuredError(TYPE_ERROR, <<>>, <<>>),
      StructuredError(TYPE_ERROR_SPACED, <<>>, <<>>),
      StructuredError(TYPE_ERROR, Filler(FillToTail), <<>>),
      StructuredError(TYPE_ERROR, Filler(FillToTail + 2), <<>>),
      StructuredError(TYPE_ERROR, Filler(600) \o Filler(600), <<>>),
      StructuredError(TYPE_ERROR, <<>>, Filler(FillToTail))
    }

\* Ordinary output that mentions an error
ERROR_WORD ==
    <<"E", "r", "r", "o", "r", ":", " ", "2", " ", "t", "e", "s", "t", "s",
      " ", "f", "a", "i", "l", "e", "d">>

\* A message with a reset time and no error-type marker
RESET_NO_MARKER ==
    <<"\"", "m", "e", "s", "s", "a", "g", "e", "\"", ":", "\"", "L", "i", "m",
      "i", "t", " ", "r", "e", "s", "e", "t", " ", "a", "t", " ", "2", "0",
      "2", "5", "-", "1", "2", "-", "1", "1", " ", "1", "8", ":", "1", "8",
      ":", "4", "4", "\"">>

\* Texts that API_ERROR_PATTERN does not match
OrdinaryTexts ==
    { Chars(t) : t \in {
      ERROR_WORD,
      RESET_NO_MARKER,
      \* a structured error that names no reset time
      <<"\"", "t", "y", "p", "e", "\"", ":", "\"", "e", "r", "r", "o", "r",
        "\"", ",", "\"", "m", "e", "s", "s", "a", "g", "e", "\"", ":", "\"",
        "O", "v", "e", "r", "l", "o", "a", "d", "e", "d", "\"">>,
      \* a reset date without the time of day
      <<"\"", "t", "y", "p", "e", "\"", ":", "\"", "e", "r", "r", "o", "r",
        "\"", ",", "\"", "m", "e", "s", "s", "a", "g", "e", "\"", ":", "\"",
        "r", "e", "s", "e", "t", " ", "a", "t", " ", "2", "0", "2", "5", "-",
        "1", "2", "-", "1", "1", "\"">>,
      \* the reset time after the message field has ended
      <<"\"", "t", "y", "p", "e", "\"", ":", "\"", "e", "r", "r", "o", "r",
        "\"", ",", "\"", "m", "e", "s", "s", "a", "g", "e", "\"", ":", "\"",
        "o", "k", "\"", " ", "r", "e", "s", "e", "t", " ", "a", "t", " ", "2",
        "0", "2", "5", "-", "1", "2", "-", "1", "1", " ", "1", "8", ":", "1",
        "8", ":", "4", "4">>,
      \* the marker after the message field
      <<"\"", "m", "e", "s", "s", "a", "g", "e", "\"", ":", "\"", "r", "e",
        "s", "e", "t", " ", "a", "t", " ", "2", "0", "2", "5", "-", "1", "2",
        "-", "1", "1", " ", "1", "8", ":", "1", "8", ":", "4", "4", "\"", ",",
        "\"", "t", "y", "p", "e", "\"", ":", "\"", "e", "r", "r", "o", "r",
        "\"">>,
      \* the marker and the message field on two lines
      <<"\"", "t", "y", "p", "e", "\"", ":", "\"", "e", "r", "r", "o", "r",
        "\"", ",", "\n", "\"", "m", "e", "s", "s", "a", "g", "e", "\"", ":",
        "\"", "r", "e", "s", "e", "t", " ", "a", "t", " ", "2", "0", "2", "5",
        "-", "1", "2", "-", "1", "1", " ", "1", "8", ":", "1", "8", ":", "4",
        "4", "\"">>
    } }

\* Output written earlier in the session
EarlierOutputs == {<<>>, Filler(1000), Filler(1000) \o Filler(1001)}

\* Output written after a structured error: ordinary text, one chunk longer
\* than the buffer may grow, and two such chunks with a character between
LaterOutputs ==
    {
      Chars(ERROR_WORD),
      Filler(5000),
      Filler(2100) \o Chars(<<"E">>) \o Filler(2100)
    }

\* Ordinary output that names another reset time, 2025-01-01 00:00:00
EARLIER_RESET ==
    <<"r", "e", "s", "e", "t", " ", "a", "t", " ", "2", "0", "2", "5", "-",
      "0", "1", "-", "0", "1", " ", "0", "0", ":", "0", "0", ":", "0", "0",
      "\n">>

\* str(msg) of an event, and str(e) of an exception
EventTexts ==
    { Chars(ERROR_WORD), Chars(RESET_NO_MARKER), StructuredError(TYPE_ERROR, <<>>, <<>>) }

SessionInput(earlier, text, evs, exc) ==
    [stream |-> earlier \o text, text_start |-> Len(earlier) + 1,
     events |-> evs, raises |-> exc]

\* What a session writes, receives and raises
SessionInputs ==
    { SessionInput(e, t, <<>>, NoText) : e \in EarlierOutputs, t \in MatchingTexts }
      \cup
    { SessionInput(e, t, <<>>, NoText) : e \in {<<>>, Filler(1990)}, t \in OrdinaryTexts }
      \cup
    { SessionInput(StructuredError(TYPE_ERROR, <<>>, <<>>), t, <<>>, NoText) :
        t \in LaterOutputs }
      \cup
    { SessionInput(Chars(EARLIER_RESET), StructuredError(TYPE_ERROR, <<>>, <<>>),
                   <<>>, NoText) }
      \cup
    { SessionInput(<<>>, t, evs, exc) :
        t \in {<<>>, Chars(ERROR_WORD)},
        evs \in {<<>>} \cup { <<e>> : e \in EventTexts },
        exc \in {NoText} \cup { SomeText(e) : e \in EventTexts } }

\* sys.stdout.write(text) or sys.stderr.write(text) through the wrapper of
\* _make_write_wrapper: the next k runs of the stream are written at once
wrapper(k) ==
    /\ session_pc = "running"
    /\ written + k <= Len(stream)
    /\ LET text == SubSeq(stream, written + 1, written + k) IN
       /\ rate_limit_detector' = check_for_rate_limit(rate_limit_detector, text)
       /\ trimmed' = (trimmed
                        \/ len(Concat(rate_limit_detector.buffer, text)) > BufferLimit)
    /\ written' = written + k
    /\ split' = (split \/ (written + k >= text_start /\ written + k < Len(stream)))
    /\ UNCHANGED <<stream, text_start, events, received, rate_limit_error, session_exception,
                   has_raised, session_pc, outcome, classified>>
    /\ UNCHANGED <<gateVars, fileVars, driverVars, storeVars, backoffVars, scopeVars,
                   autoVars, timerVars,
                   retryVars>>

\* One pass of "async for msg in client.receive_response()"
receive_response ==
    /\ session_pc = "running"
    /\ received < Len(events)
    /\ LET msg_str == events[received + 1] IN
       rate_limit_error' = IF is_api_rate_limit_error(msg_str) THEN SomeText(msg_str)
                           ELSE rate_limit_error
    /\ received' = received + 1
    /\ UNCHANGED <<stream, text_start, written, rate_limit_detector, events, session_exception,
                   has_raised, session_pc, outcome, classified, split, trimmed>>
    /\ UNCHANGED <<gateVars, fileVars, driverVars, storeVars, backoffVars, scopeVars,
                   autoVars, timerVars,
                   retryVars>>

\* The stream has ended: the statements after the with block
session_returns ==
    /\ session_pc = "running"
    /\ written = Len(stream)
    /\ received = Len(events)
    /\ ~session_exception.some
    /\ outcome' = session_status(
                      SessionFact(FALSE, FALSE, rate_limit_detector.rate_limit_detected,
                                  rate_limit_error.some),
                      progress_file)
    /\ classified' = classified + 1
    /\ session_pc' = "returned"
    /\ UNCHANGED <<stream, text_start, written, rate_limit_detector, events, received,
                   rate_limit_error, session_exception, has_raised, split, trimmed>>
    /\ UNCHANGED <<gateVars, fileVars, driverVars, storeVars, backoffVars, scopeVars,
                   autoVars, timerVars,
                   retryVars>>

\* client.query or the event stream raises: the except clause
session_raises ==
    /\ session_pc = "running"
    /\ session_exception.some
    /\ outcome' = session_status(
                      SessionFact(TRUE, is_api_rate_limit_error(session_exception.text),
                                  rate_limit_detector.rate_limit_detected,
                                  rate_limit_error.some),
                      progress_file)
    /\ classified' = classified + 1
    /\ has_raised' = TRUE
    /\ session_pc' = "returned"
    /\ UNCHANGED <<stream, text_start, written, rate_limit_detector, events, received,
                   rate_limit_error, session_exception, split, trimmed>>
    /\ UNCHANGED <<gateVars, fileVars, driverVars, storeVars, backoffVars, scopeVars,
                   autoVars, timerVars,
                   retryVars>>

\* The text run_agent_session returns with its status: the detector's
\* error_message, the text of the matching event or str(e); response_text is
\* always empty
returned_text ==
    IF has_raised
    THEN IF is_api_rate_limit_error(session_exception.text) THEN session_exception.text
         ELSE IF rate_limit_detector.rate_limit_detected
         THEN rate_limit_detector.error_message
         ELSE session_exception.text
    ELSE IF rate_limit_detector.rate_limit_detected
    THEN rate_limit_detector.error_message
    ELSE IF rate_limit_error.some THEN rate_limit_error.text
    ELSE <<>>

SessionInit ==
    /\ AutonomousIdle
    /\ TimerIdle
    /\ RetryIdle
    /\ ScopeIdle
    /\ \E input \in SessionInputs :
        /\ stream = input.stream
        /\ text_start = input.text_start
        /\ events = input.events
        /\ session_exception = input.raises
    /\ written = 0
    /\ rate_limit_detector = NewDetector
    /\ received = 0
    /\ rate_limit_error = NoText
    /\ has_raised = FALSE
    /\ session_pc = "running"
    /\ outcome = ""
    /\ classified = 0
    /\ split = FALSE
    /\ trimmed = FALSE
    /\ FilesIdle
    /\ GateIdle
    /\ DriverIdle
    /\ StoreIdle
    /\ BackoffIdle

SessionNext ==
    \/ \E k \in 1..Len(stream) : wrapper(k)
    \/ receive_response
    \/ session_returns
    \/ session_raises

SpecSession == SessionInit /\ [][SessionNext]_vars


(***************************************************************************)
(* agent.py (both agents): parse_rate_limit_reset_time, countdown_timer,   *)
(* handle_rate_limit                                                       *)
(***************************************************************************)

DEFAULT_RATE_LIMIT_WAIT_MINUTES == 30
RATE_LIMIT_BUFFER_SECONDS == 60
RATE_LIMIT_RESUME_INTERVAL_SECONDS == 30 * 60

\* datetime.now() has a part below the second: the clock of the model counts
\* ticks, TicksPerSecond of them in a second
TicksPerSecond == 2

\* Times are counted from the first of January of this year
EpochYear == 2025

Min(a, b) == IF a < b THEN a ELSE b
Max(a, b) == IF a > b THEN a ELSE b

DigitValue(c) ==
    CASE c = "0" -> 0 [] c = "1" -> 1 [] c = "2" -> 2 [] c = "3" -> 3 [] c = "4" -> 4
      [] c = "5" -> 5 [] c = "6" -> 6 [] c = "7" -> 7 [] c = "8" -> 8 [] c = "9" -> 9

\* int() of the k digits that start at position i
RECURSIVE Number(_, _, _)
Number(text, i, k) ==
    IF k = 0 THEN 0
    ELSE Number(text, i, k - 1) * 10 + DigitValue(text[i + k - 1].c)

IsLeap(y) == (y % 4 = 0 /\ y % 100 # 0) \/ y % 400 = 0

DaysInMonth(y, m) ==
    IF m \in {4, 6, 9, 11} THEN 30
    ELSE IF m = 2 THEN (IF IsLeap(y) THEN 29 ELSE 28)
    ELSE 31

\* Days from 0001-01-01 to the first of January of year y
DaysBeforeYear(y) ==
    (y - 1) * 365 + ((y - 1) \div 4) - ((y - 1) \div 100) + ((y - 1) \div 400)

RECURSIVE DaysBeforeMonth(_, _)
DaysBeforeMonth(y, m) ==
    IF m = 1 THEN 0 ELSE DaysBeforeMonth(y, m - 1) + DaysInMonth(y, m - 1)

\* A datetime, as the seconds since the epoch of the model
Seconds(y, mo, d, h, mi, s) ==
    ((DaysBeforeYear(y) - DaysBeforeYear(EpochYear) + DaysBeforeMonth(y, mo) + (d - 1))
        * 24 + h) * 3600 + mi * 60 + s

\* Optional[datetime]
NoTime == [some |-> FALSE, seconds |-> 0]
SomeTime(t) == [some |-> TRUE, seconds |-> t]

\* strptime that accepts every day up to 31 in every month
strptime_any_day(text, i) ==
    LET y == Number(text, i, 4)
        mo == Number(text, i + 5, 2)
        d == Number(text, i + 8, 2)
        h == Number(text, i + 11, 2)
        mi == Number(text, i + 14, 2)
        s == Number(text, i + 17, 2)
    IN  IF /\ y >= 1
           /\ mo \in 1..12
           /\ d \in 1..31
           /\ h <= 23
           /\ mi <= 59
           /\ s <= 59
        THEN SomeTime(Seconds(y, mo, Min(d, DaysInMonth(y, mo)), h, mi, s))
        ELSE NoTime

\* datetime.strptime(..., "%Y-%m-%d %H:%M:%S") on the timestamp at position i,
\* NoTime standing for its ValueError
strptime(text, i) ==
    LET y == Number(text, i, 4)
        mo == Number(text, i + 5, 2)
        d == Number(text, i + 8, 2)
        h == Number(text, i + 11, 2)
        mi == Number(text, i + 14, 2)
        s == Number(text, i + 17, 2)
    IN  IF /\ y >= 1
           /\ mo \in 1..12
           /\ d >= 1
           /\ d <= DaysInMonth(y, mo)
           /\ h <= 23
           /\ mi <= 59
           /\ s <= 59
        THEN SomeTime(Seconds(y, mo, d, h, mi, s))
        ELSE NoTime

\* The positions where "reset at <timestamp>" matches
ResetMatches(text) == { i \in 1..Len(text) : ResetAt(text, i) }

\* parse_rate_limit_reset_time(error_message): re.search takes the leftmost
\* match
parse_rate_limit_reset_time(error_message) ==
    LET matches == ResetMatches(error_message) IN
    IF matches = {} THEN NoTime
    ELSE LET first == CHOOSE i \in matches : \A j \in matches : i <= j IN
         strptime(error_message, first + Len(RESET_AT))

\* countdown_timer(seconds): the seconds it sleeps, in steps of update_interval
RECURSIVE countdown_timer(_, _)
countdown_timer(seconds, update_interval) ==
    IF seconds > 0
    THEN LET sleep_time == Min(update_interval, seconds) IN
         sleep_time + countdown_timer(seconds - sleep_time, update_interval)
    ELSE 0

\* int(x) of x = ticks / TicksPerSecond: rounds toward zero
int_seconds(ticks) ==
    IF ticks >= 0 THEN ticks \div TicksPerSecond
    ELSE 0 - ((0 - ticks) \div TicksPerSecond)

\* handle_rate_limit that waits the default 30 minutes when the reset time
\* has passed
handle_rate_limit_default_when_past(error_message, clock) ==
    LET reset_time == parse_rate_limit_reset_time(error_message) IN
    IF reset_time.some
    THEN LET until_reset == int_seconds(reset_time.seconds * TicksPerSecond - clock)
             wait_seconds == Max(0, until_reset) + RATE_LIMIT_BUFFER_SECONDS
         IN  IF until_reset <= 0
             THEN countdown_timer(DEFAULT_RATE_LIMIT_WAIT_MINUTES * 60, 30)
             ELSE IF wait_seconds > RATE_LIMIT_RESUME_INTERVAL_SECONDS
             THEN countdown_timer(Min(wait_seconds, RATE_LIMIT_RESUME_INTERVAL_SECONDS), 30)
             ELSE countdown_timer(wait_seconds, 30)
    ELSE countdown_timer(DEFAULT_RATE_LIMIT_WAIT_MINUTES * 60, 30)

\* The seconds handle_rate_limit(error_message) of the feature agent sleeps
\* when datetime.now() is clock
handle_rate_limit_sleep(error_message, clock) ==
    LET reset_time == parse_rate_limit_reset_time(error_message) IN
    IF reset_time.some
    THEN LET wait_seconds_until_reset ==
                 Max(0, int_seconds(reset_time.seconds * TicksPerSecond - clock))
             wait_seconds == wait_seconds_until_reset + RATE_LIMIT_BUFFER_SECONDS
         IN  IF wait_seconds > 0
             THEN IF wait_seconds > RATE_LIMIT_RESUME_INTERVAL_SECONDS
                  THEN countdown_timer(
                           Min(wait_seconds, RATE_LIMIT_RESUME_INTERVAL_SECONDS), 30)
                  ELSE countdown_timer(wait_seconds, 30)
             ELSE 0
    ELSE countdown_timer(DEFAULT_RATE_LIMIT_WAIT_MINUTES * 60, 30)

\* handle_rate_limit of the autonomous agent without the buffer after the
\* reset time
autonomous_handle_rate_limit_sleep_without_buffer(error_message, clock) ==
    LET reset_time == parse_rate_limit_reset_time(error_message) IN
    IF reset_time.some
    THEN LET wait_seconds ==
                 Max(0, int_seconds(reset_time.seconds * TicksPerSecond - clock))
         IN  IF wait_seconds > 0
             THEN IF wait_seconds > RATE_LIMIT_RESUME_INTERVAL_SECONDS
                  THEN countdown_timer(
                           Min(wait_seconds, RATE_LIMIT_RESUME_INTERVAL_SECONDS), 30)
                  ELSE countdown_timer(wait_seconds, 30)
             ELSE countdown_timer(DEFAULT_RATE_LIMIT_WAIT_MINUTES * 60, 30)
    ELSE countdown_timer(DEFAULT_RATE_LIMIT_WAIT_MINUTES * 60, 30)

\* The same for handle_rate_limit of the autonomous agent
autonomous_handle_rate_limit_sleep(error_message, clock) ==
    LET reset_time == parse_rate_limit_reset_time(error_message) IN
    IF reset_time.some
    THEN LET wait_seconds_until_reset ==
                 Max(0, int_seconds(reset_time.seconds * TicksPerSecond - clock))
             wait_seconds == wait_seconds_until_reset + RATE_LIMIT_BUFFER_SECONDS
         IN  IF wait_seconds > 0
             THEN IF wait_seconds > RATE_LIMIT_RESUME_INTERVAL_SECONDS
                  THEN countdown_timer(
                           Min(wait_seconds, RATE_LIMIT_RESUME_INTERVAL_SECONDS), 30)
                  ELSE countdown_timer(wait_seconds, 30)
             ELSE countdown_timer(DEFAULT_RATE_LIMIT_WAIT_MINUTES * 60, 30)
    ELSE LET default_wait_seconds == DEFAULT_RATE_LIMIT_WAIT_MINUTES * 60 IN
         IF default_wait_seconds > RATE_LIMIT_RESUME_INTERVAL_SECONDS
         THEN countdown_timer(RATE_LIMIT_RESUME_INTERVAL_SECONDS, 30)
         ELSE countdown_timer(default_wait_seconds, 30)

\* The wait of a call was longer than the resume interval, so that the call
\* slept one interval only and the driver is going to call again
SleptOneInterval(error_message, clock) ==
    LET reset_time == parse_rate_limit_reset_time(error_message) IN
    /\ reset_time.some
    /\ Max(0, int_seconds(reset_time.seconds * TicksPerSecond - clock))
           + RATE_LIMIT_BUFFER_SECONDS > RATE_LIMIT_RESUME_INTERVAL_SECONDS

\* Calls of handle_rate_limit with one error text
MaxCalls == 4

\* Error texts with a reset time that can be parsed
ParsableTexts ==
    { Chars(t) : t \in {
      \* the message of the API
      <<"Y", "o", "u", "r", " ", "l", "i", "m", "i", "t", " ", "w", "i", "l",
        "l", " ", "r", "e", "s", "e", "t", " ", "a", "t", " ", "2", "0", "2",
        "5", "-", "1", "2", "-", "1", "1", " ", "1", "8", ":", "1", "8", ":",
        "4", "4">>,
      \* the structured error
      <<"{", "\"", "t", "y", "p", "e", "\"", ":", "\"", "e", "r", "r", "o",
        "r", "\"", ",", "\"", "m", "e", "s", "s", "a", "g", "e", "\"", ":",
        "\"", "L", "i", "m", "i", "t", " ", "r", "e", "s", "e", "t", " ", "a",
        "t", " ", "2", "0", "2", "5", "-", "1", "2", "-", "1", "1", " ", "1",
        "8", ":", "1", "8", ":", "4", "4", "\"", "}">>,
      \* a leap day
      <<"r", "e", "s", "e", "t", " ", "a", "t", " ", "2", "0", "2", "4", "-",
        "0", "2", "-", "2", "9", " ", "2", "3", ":", "5", "9", ":", "5", "9">>,
      \* a valid time before an invalid one
      <<"r", "e", "s", "e", "t", " ", "a", "t", " ", "2", "0", "2", "5", "-",
        "1", "2", "-", "1", "1", " ", "1", "8", ":", "1", "8", ":", "4", "4",
        ",", " ", "r", "e", "s", "e", "t", " ", "a", "t", " ", "2", "0", "2",
        "5", "-", "1", "3", "-", "1", "1", " ", "1", "8", ":", "1", "8", ":",
        "4", "4">>
    } }

\* Error texts without one
UnparsableTexts ==
    {<<>>} \cup
    { Chars(t) : t \in {
      \* no reset time
      <<"R", "a", "t", "e", " ", "l", "i", "m", "i", "t", "e", "d">>,
      \* other letter case
      <<"R", "e", "s", "e", "t", " ", "A", "t", " ", "2", "0", "2", "5", "-",
        "1", "2", "-", "1", "1", " ", "1", "8", ":", "1", "8", ":", "4", "4">>,
      \* T between date and time
      <<"r", "e", "s", "e", "t", " ", "a", "t", " ", "2", "0", "2", "5", "-",
        "1", "2", "-", "1", "1", "T", "1", "8", ":", "1", "8", ":", "4", "4">>,
      \* no seconds
      <<"r", "e", "s", "e", "t", " ", "a", "t", " ", "2", "0", "2", "5", "-",
        "1", "2", "-", "1", "1", " ", "1", "8", ":", "1", "8">>,
      \* month 13
      <<"r", "e", "s", "e", "t", " ", "a", "t", " ", "2", "0", "2", "5", "-",
        "1", "3", "-", "1", "1", " ", "1", "8", ":", "1", "8", ":", "4", "4">>,
      \* month 00
      <<"r", "e", "s", "e", "t", " ", "a", "t", " ", "2", "0", "2", "5", "-",
        "0", "0", "-", "1", "1", " ", "1", "8", ":", "1", "8", ":", "4", "4">>,
      \* day 00
      <<"r", "e", "s", "e", "t", " ", "a", "t", " ", "2", "0", "2", "5", "-",
        "1", "2", "-", "0", "0", " ", "1", "8", ":", "1", "8", ":", "4", "4">>,
      \* 29 February of a common year
      <<"r", "e", "s", "e", "t", " ", "a", "t", " ", "2", "0", "2", "5", "-",
        "0", "2", "-", "2", "9", " ", "1", "8", ":", "1", "8", ":", "4", "4">>,
      \* 31 April
      <<"r", "e", "s", "e", "t", " ", "a", "t", " ", "2", "0", "2", "5", "-",
        "0", "4", "-", "3", "1", " ", "1", "8", ":", "1", "8", ":", "4", "4">>,
      \* hour 24
      <<"r", "e", "s", "e", "t", " ", "a", "t", " ", "2", "0", "2", "5", "-",
        "1", "2", "-", "1", "1", " ", "2", "4", ":", "0", "0", ":", "0", "0">>,
      \* minute 60
      <<"r", "e", "s", "e", "t", " ", "a", "t", " ", "2", "0", "2", "5", "-",
        "1", "2", "-", "1", "1", " ", "1", "8", ":", "6", "0", ":", "4", "4">>,
      \* second 60
      <<"r", "e", "s", "e", "t", " ", "a", "t", " ", "2", "0", "2", "5", "-",
        "1", "2", "-", "1", "1", " ", "1", "8", ":", "1", "8", ":", "6", "0">>,
      \* year 0000
      <<"r", "e", "s", "e", "t", " ", "a", "t", " ", "0", "0", "0", "0", "-",
        "1", "2", "-", "1", "1", " ", "1", "8", ":", "1", "8", ":", "4", "4">>,
      \* an invalid time before a valid one
      <<"r", "e", "s", "e", "t", " ", "a", "t", " ", "2", "0", "2", "5", "-",
        "0", "2", "-", "3", "0", " ", "1", "8", ":", "1", "8", ":", "4", "4",
        ",", " ", "r", "e", "s", "e", "t", " ", "a", "t", " ", "2", "0", "2",
        "5", "-", "1", "2", "-", "1", "1", " ", "1", "8", ":", "1", "8", ":",
        "4", "4">>
    } }

\* 2025-12-11 18:18:44, the reset time most texts name
ResetSeconds == Seconds(2025, 12, 11, 18, 18, 44)

\* Whole seconds from datetime.now() to that reset time (negative: after it)
SecondsBeforeReset ==
    {-100, -1, 0, 1, 99, 1739, 1740, 1741, 1799, 1800, 2700, 3540, 3541, 5400}

\* The times of the first call: each of these, and a part of a second later
FirstCalls ==
    { (ResetSeconds - d) * TicksPerSecond + f :
        d \in SecondsBeforeReset, f \in 0..(TicksPerSecond - 1) }

BackoffInit ==
    /\ AutonomousIdle
    /\ TimerIdle
    /\ RetryIdle
    /\ ScopeIdle
    /\ response \in ParsableTexts \cup UnparsableTexts
    /\ now \in FirstCalls
    /\ called_at = <<>>
    /\ sleeps = <<>>
    /\ final = FALSE
    /\ FilesIdle
    /\ GateIdle
    /\ DriverIdle
    /\ StoreIdle
    /\ SessionIdle

\* await handle_rate_limit(response) in run_feature_agent; the session that
\* follows is rate limited with the same text when the wait was cut short
handle_rate_limit ==
    /\ ~final
    /\ Len(sleeps) < MaxCalls
    /\ LET slept == handle_rate_limit_sleep(response, now) IN
       /\ sleeps' = Append(sleeps, slept)
       /\ now' = now + slept * TicksPerSecond
    /\ called_at' = Append(called_at, now)
    /\ final' = ~SleptOneInterval(response, now)
    /\ UNCHANGED response
    /\ UNCHANGED <<gateVars, fileVars, driverVars, storeVars, sessionVars, scopeVars,
                   autoVars, timerVars,
                   retryVars>>

\* await handle_rate_limit(response) in run_autonomous_agent
autonomous_handle_rate_limit ==
    /\ ~final
    /\ Len(sleeps) < MaxCalls
    /\ LET slept == autonomous_handle_rate_limit_sleep(response, now) IN
       /\ sleeps' = Append(sleeps, slept)
       /\ now' = now + slept * TicksPerSecond
    /\ called_at' = Append(called_at, now)
    /\ final' = ~SleptOneInterval(response, now)
    /\ UNCHANGED response
    /\ UNCHANGED <<gateVars, fileVars, driverVars, storeVars, sessionVars, scopeVars,
                   autoVars, timerVars,
                   retryVars>>

BackoffNext ==
    \/ handle_rate_limit
    \/ autonomous_handle_rate_limit

SpecBackoff == BackoffInit /\ [][BackoffNext]_vars


(***************************************************************************)
(* agent.py: "with rate_limit_detector:" in run_agent_session, over the    *)
(* sessions one process runs.  A write target is the sequence of detectors *)
(* whose wrappers stand before the original write, outermost first: <<>>   *)
(* is the original write of the channel.                                   *)
(***************************************************************************)

\* Sessions one process runs
MaxScopedSessions == 3

\* Writes of one session
MaxWrites == 2

\* The saved write target
SomeTarget(target) == [some |-> TRUE, target |-> target]

\* _make_write_wrapper(original_write) of detector d
make_write_wrapper(d, original_write) == <<d>> \o original_write

\* __exit__ that assigns nothing
restore_nothing(original_write, current) == current

\* "if self._original_..._write: sys....write = self._original_..._write"
restore_write(original_write, current) ==
    IF original_write.some THEN original_write.target ELSE current

\* How a with block is left: the body returns, client.query or the event
\* stream raises, the task is cancelled at an await, KeyboardInterrupt
ExitPaths == {"return", "exception", "cancelled", "interrupt"}

\* The exit paths after which run_agent_session returns a status
ReturningPaths == {"return", "exception"}

\* rate_limit_detector = RateLimitDetector() in a new call of run_agent_session
new_session ==
    /\ scope_pc = "between"
    /\ detectors < MaxScopedSessions
    /\ detectors' = detectors + 1
    /\ original_stdout_write' = NoTarget
    /\ original_stderr_write' = NoTarget
    /\ installed' = [stdout |-> sys_stdout_write, stderr |-> sys_stderr_write]
    /\ restored' = [stdout |-> 0, stderr |-> 0]
    /\ exit_path' = ""
    /\ scanned' = 0
    /\ scope_pc' = "enter_1"
    /\ UNCHANGED <<sys_stdout_write, sys_stderr_write>>
    /\ UNCHANGED <<gateVars, fileVars, driverVars, storeVars, sessionVars, backoffVars,
                   autoVars, timerVars,
                   retryVars>>

\* One statement of RateLimitDetector.__enter__
detector_enter ==
    /\ scope_pc \in {"enter_1", "enter_2", "enter_3", "enter_4"}
    /\ original_stdout_write' =
           IF scope_pc = "enter_1" THEN SomeTarget(sys_stdout_write) ELSE original_stdout_write
    /\ original_stderr_write' =
           IF scope_pc = "enter_2" THEN SomeTarget(sys_stderr_write) ELSE original_stderr_write
    /\ sys_stdout_write' =
           IF scope_pc = "enter_3"
           THEN make_write_wrapper(detectors, original_stdout_write.target)
           ELSE sys_stdout_write
    /\ sys_stderr_write' =
           IF scope_pc = "enter_4"
           THEN make_write_wrapper(detectors, original_stderr_write.target)
           ELSE sys_stderr_write
    /\ scope_pc' = CASE scope_pc = "enter_1" -> "enter_2"
                     [] scope_pc = "enter_2" -> "enter_3"
                     [] scope_pc = "enter_3" -> "enter_4"
                     [] scope_pc = "enter_4" -> "body"
    /\ UNCHANGED <<detectors, installed, restored, exit_path, scanned>>
    /\ UNCHANGED <<gateVars, fileVars, driverVars, storeVars, sessionVars, backoffVars,
                   autoVars, timerVars,
                   retryVars>>

\* A print in the with block: the wrapper of the session's detector checks
\* the text and hands it to the write it wraps
body_write ==
    /\ scope_pc = "body"
    /\ scanned < MaxWrites
    /\ sys_stdout_write # <<>>
    /\ Head(sys_stdout_write) = detectors
    /\ scanned' = scanned + 1
    /\ UNCHANGED <<sys_stdout_write, sys_stderr_write, original_stdout_write,
                   original_stderr_write, scope_pc, detectors, installed, restored,
                   exit_path>>
    /\ UNCHANGED <<gateVars, fileVars, driverVars, storeVars, sessionVars, backoffVars,
                   autoVars, timerVars,
                   retryVars>>

\* The with block is left: __exit__ is called whatever the path
body_ends(path) ==
    /\ scope_pc = "body"
    /\ exit_path' = path
    /\ scope_pc' = "exit_1"
    /\ UNCHANGED <<sys_stdout_write, sys_stderr_write, original_stdout_write,
                   original_stderr_write, detectors, installed, restored, scanned>>
    /\ UNCHANGED <<gateVars, fileVars, driverVars, storeVars, sessionVars, backoffVars,
                   autoVars, timerVars,
                   retryVars>>

\* One statement of RateLimitDetector.__exit__; after the second,
\* run_agent_session returns its status to the loop of run_feature_agent, or
\* the cancellation or the interrupt leaves the loop and the process ends
detector_exit ==
    /\ scope_pc \in {"exit_1", "exit_2"}
    /\ IF scope_pc = "exit_1"
       THEN /\ sys_stdout_write' = restore_write(original_stdout_write, sys_stdout_write)
            /\ restored' = [restored EXCEPT
                               !.stdout = @ + (IF original_stdout_write.some THEN 1 ELSE 0)]
            /\ scope_pc' = "exit_2"
            /\ UNCHANGED sys_stderr_write
       ELSE /\ sys_stderr_write' = restore_write(original_stderr_write, sys_stderr_write)
            /\ restored' = [restored EXCEPT
                               !.stderr = @ + (IF original_stderr_write.some THEN 1 ELSE 0)]
            /\ scope_pc' = IF exit_path \in ReturningPaths THEN "between" ELSE "ended"
            /\ UNCHANGED sys_stdout_write
    /\ UNCHANGED <<original_stdout_write, original_stderr_write, detectors, installed,
                   exit_path, scanned>>
    /\ UNCHANGED <<gateVars, fileVars, driverVars, storeVars, sessionVars, backoffVars,
                   autoVars, timerVars,
                   retryVars>>

\* KeyboardInterrupt is raised between two statements of __enter__ or of
\* __exit__: the rest of the method is skipped, __exit__ is not called for an
\* __enter__ that has not returned, and the process ends
interrupt_in_scope ==
    /\ scope_pc \in {"enter_1", "enter_2", "enter_3", "enter_4", "exit_1", "exit_2"}
    /\ exit_path' = IF scope_pc \in {"exit_1", "exit_2"}
                    THEN "interrupt in __exit__" ELSE "interrupt in __enter__"
    /\ scope_pc' = "ended"
    /\ UNCHANGED <<sys_stdout_write, sys_stderr_write, original_stdout_write,
                   original_stderr_write, detectors, installed, restored, scanned>>
    /\ UNCHANGED <<gateVars, fileVars, driverVars, storeVars, sessionVars, backoffVars,
                   autoVars, timerVars,
                   retryVars>>

ScopeInit ==
    /\ AutonomousIdle
    /\ TimerIdle
    /\ RetryIdle
    /\ sys_stdout_write = <<>>
    /\ sys_stderr_write = <<>>
    /\ original_stdout_write = NoTarget
    /\ original_stderr_write = NoTarget
    /\ scope_pc = "between"
    /\ detectors = 0
    /\ installed = [stdout |-> <<>>, stderr |-> <<>>]
    /\ restored = [stdout |-> 0, stderr |-> 0]
    /\ exit_path = ""
    /\ scanned = 0
    /\ FilesIdle
    /\ GateIdle
    /\ DriverIdle
    /\ StoreIdle
    /\ SessionIdle
    /\ BackoffIdle

ScopeNext ==
    \/ new_session
    \/ detector_enter
    \/ body_write
    \/ \E path \in ExitPaths : body_ends(path)
    \/ detector_exit
    \/ interrupt_in_scope

SpecScope == ScopeInit /\ [][ScopeNext]_vars

(***************************************************************************)
(* autonomous-coding/agent.py: the loop of run_autonomous_agent            *)
(***************************************************************************)

\* Sessions one run of run_autonomous_agent starts
MaxAutonomousSessions == 4

\* The statuses run_agent_session of autonomous-coding returns
AutonomousStatuses == {"continue", "rate_limit", "error"}

\* "if is_first_run: prompt = get_initializer_prompt() ... else:
\* prompt = get_coding_prompt()"
choose_prompt(first_run) ==
    IF first_run THEN "initializer_prompt" ELSE "coding_prompt"

\* run_autonomous_agent up to the main loop: the run is a first run when
\* feature_list.json does not exist
run_autonomous_agent(tests_file_exists, cap) ==
    /\ autonomous_pc = "idle"
    /\ is_first_run' = ~tests_file_exists
    /\ autonomous_max_iterations' = cap
    /\ autonomous_iteration' = 0
    /\ autonomous_pc' = "loop"
    /\ UNCHANGED <<autonomous_prompt, previous_prompt, autonomous_status, autonomous_sessions>>
    /\ UNCHANGED <<gateVars, fileVars, driverVars, storeVars, sessionVars, backoffVars,
                   scopeVars, timerVars,
                   retryVars>>

\* Top of the loop: count the iteration, stop at the cap, else create the
\* client and choose the prompt
autonomous_begin_iteration ==
    /\ autonomous_pc = "loop"
    /\ autonomous_iteration' = autonomous_iteration + 1
    /\ IF reached_max_iterations(autonomous_max_iterations, autonomous_iteration + 1)
       THEN /\ autonomous_pc' = "summary"
            /\ UNCHANGED <<is_first_run, autonomous_prompt, previous_prompt,
                           autonomous_sessions>>
       ELSE /\ autonomous_sessions < MaxAutonomousSessions
            /\ autonomous_sessions' = autonomous_sessions + 1
            /\ previous_prompt' = autonomous_prompt
            /\ autonomous_prompt' = choose_prompt(is_first_run)
            /\ is_first_run' = FALSE
            /\ autonomous_pc' = "session"
    /\ UNCHANGED <<autonomous_max_iterations, autonomous_status>>
    /\ UNCHANGED <<gateVars, fileVars, driverVars, storeVars, sessionVars, backoffVars,
                   scopeVars, timerVars,
                   retryVars>>

\* One session of the autonomous agent returns its status
autonomous_run_agent_session(returned) ==
    /\ autonomous_pc = "session"
    /\ autonomous_status' = returned
    /\ autonomous_pc' = "handle"
    /\ UNCHANGED <<autonomous_iteration, autonomous_max_iterations, is_first_run,
                   autonomous_prompt, previous_prompt, autonomous_sessions>>
    /\ UNCHANGED <<gateVars, fileVars, driverVars, storeVars, sessionVars, backoffVars,
                   scopeVars, timerVars,
                   retryVars>>

\* The branch on the returned status
autonomous_handle_status ==
    /\ autonomous_pc = "handle"
    /\ autonomous_iteration' = IF autonomous_status = "rate_limit"
                               THEN retry_same_session(autonomous_iteration)
                               ELSE autonomous_iteration
    /\ autonomous_pc' = "loop"
    /\ UNCHANGED <<autonomous_max_iterations, is_first_run, autonomous_prompt,
                   previous_prompt, autonomous_status, autonomous_sessions>>
    /\ UNCHANGED <<gateVars, fileVars, driverVars, storeVars, sessionVars, backoffVars,
                   scopeVars, timerVars,
                   retryVars>>

\* The final summary after the loop
autonomous_final_summary ==
    /\ autonomous_pc = "summary"
    /\ autonomous_pc' = "done"
    /\ UNCHANGED <<autonomous_iteration, autonomous_max_iterations, is_first_run,
                   autonomous_prompt, previous_prompt, autonomous_status,
                   autonomous_sessions>>
    /\ UNCHANGED <<gateVars, fileVars, driverVars, storeVars, sessionVars, backoffVars,
                   scopeVars, timerVars,
                   retryVars>>

AutonomousInit ==
    /\ AutonomousIdle
    /\ TimerIdle
    /\ RetryIdle
    /\ FilesIdle
    /\ GateIdle
    /\ DriverIdle
    /\ StoreIdle
    /\ SessionIdle
    /\ BackoffIdle
    /\ ScopeIdle

AutonomousNext ==
    \/ \E tests_file_exists \in BOOLEAN, cap \in 0..MaxIterationCap :
           run_autonomous_agent(tests_file_exists, cap)
    \/ autonomous_begin_iteration
    \/ \E returned \in AutonomousStatuses : autonomous_run_agent_session(returned)
    \/ autonomous_handle_status
    \/ autonomous_final_summary

SpecAutonomous == AutonomousInit /\ [][AutonomousNext]_vars

(***************************************************************************)
(* agent.py (both agents): countdown_timer, statement by statement         *)
(***************************************************************************)

\* Whole seconds a call counts down from, up to this bound and two long waits
MaxCountdown == 61

\* The seconds handle_rate_limit passes for a default wait and for a wait of
\* an hour and more
LongCountdowns == {DEFAULT_RATE_LIMIT_WAIT_MINUTES * 60, 3661}

\* update_interval: the default of the signature, the only value the callers
\* give, and other positive intervals
DefaultUpdateInterval == 30
UpdateIntervals == {1, 7, DefaultUpdateInterval, 45}

\* A sleep of the whole interval whatever is left
whole_interval(update_interval, seconds) == update_interval

\* sleep_time = min(update_interval, seconds)
sleep_time(update_interval, seconds) == Min(update_interval, seconds)

\* divmod(seconds, 3600), divmod(remainder, 60) and the choice of the format
time_str(seconds) ==
    LET hours == seconds \div 3600
        remainder == seconds % 3600
    IN  [hours |-> hours, minutes |-> remainder \div 60, secs |-> remainder % 60,
         format |-> IF hours > 0 THEN "hh:mm:ss" ELSE "mm:ss"]

\* "\r" + " " * 60 + "\r"
BlankLine == [hours |-> 0, minutes |-> 0, secs |-> 0, format |-> "blank"]

\* await countdown_timer(seconds, message, update_interval)
countdown_timer_call(seconds, update_interval) ==
    /\ timer_pc = "idle"
    /\ timer_pc' = "while"
    /\ timer_seconds' = seconds
    /\ timer_interval' = update_interval
    /\ remaining' = seconds
    /\ UNCHANGED <<shown, displays, timer_sleeps, last_sleep, slept_total, cleared>>
    /\ UNCHANGED <<gateVars, fileVars, driverVars, storeVars, sessionVars, backoffVars,
                   scopeVars, autoVars,
                   retryVars>>

\* while seconds > 0: sys.stdout.write(f"\r{message}: {time_str}   "); flush
display_update ==
    /\ timer_pc = "while"
    /\ remaining > 0
    /\ shown' = time_str(remaining)
    /\ displays' = displays + 1
    /\ timer_pc' = "sleep"
    /\ UNCHANGED <<timer_seconds, timer_interval, remaining, timer_sleeps, last_sleep,
                   slept_total, cleared>>
    /\ UNCHANGED <<gateVars, fileVars, driverVars, storeVars, sessionVars, backoffVars,
                   scopeVars, autoVars,
                   retryVars>>

\* await asyncio.sleep(sleep_time); seconds -= sleep_time
asyncio_sleep ==
    /\ timer_pc = "sleep"
    /\ LET slept == sleep_time(timer_interval, remaining) IN
       /\ last_sleep' = slept
       /\ slept_total' = slept_total + slept
       /\ remaining' = remaining - slept
    /\ timer_sleeps' = timer_sleeps + 1
    /\ timer_pc' = "while"
    /\ UNCHANGED <<timer_seconds, timer_interval, shown, displays, cleared>>
    /\ UNCHANGED <<gateVars, fileVars, driverVars, storeVars, sessionVars, backoffVars,
                   scopeVars, autoVars,
                   retryVars>>

\* The loop has ended: sys.stdout.write("\r" + " " * 60 + "\r"); flush
clear_display ==
    /\ timer_pc = "while"
    /\ ~(remaining > 0)
    /\ shown' = BlankLine
    /\ cleared' = cleared + 1
    /\ timer_pc' = "done"
    /\ UNCHANGED <<timer_seconds, timer_interval, remaining, displays, timer_sleeps,
                   last_sleep, slept_total>>
    /\ UNCHANGED <<gateVars, fileVars, driverVars, storeVars, sessionVars, backoffVars,
                   scopeVars, autoVars,
                   retryVars>>

CountdownInit ==
    /\ TimerIdle
    /\ RetryIdle
    /\ AutonomousIdle
    /\ ScopeIdle
    /\ FilesIdle
    /\ GateIdle
    /\ DriverIdle
    /\ StoreIdle
    /\ SessionIdle
    /\ BackoffIdle

CountdownNext ==
    \/ \E seconds \in (0..MaxCountdown) \cup LongCountdowns :
       \E update_interval \in UpdateIntervals :
           /\ (seconds > MaxCountdown => update_interval = DefaultUpdateInterval)
           /\ countdown_timer_call(seconds, update_interval)
    \/ display_update
    \/ asyncio_sleep
    \/ clear_display

\* The steps of one call, for the weak fairness of the event loop
TimerStep == display_update \/ asyncio_sleep \/ clear_display

SpecCountdown == CountdownInit /\ [][CountdownNext]_vars

\* The event loop runs the coroutine on: a sleep of finite length ends
SpecCountdownRun == SpecCountdown /\ WF_timerVars(TimerStep)

(***************************************************************************)
(* agent.py: the loop of run_feature_agent after a rate-limited session    *)
(***************************************************************************)

\* Waits for one error text
MaxRetries == 6

\* Ticks a session takes from its start to its return
SessionTicks == {0, 1}

\* A clock that stands still while the countdown sleeps
time_standing_still(clock, slept) == clock

\* datetime.now() after await asyncio.sleep(sleep_time) has slept `slept`
\* seconds in all
time_after_wait(clock, slept) == clock + slept * TicksPerSecond

\* Error texts that name the reset time of the model and one long past
RetryInputs ==
    { t \in ParsableTexts : Len(t) < 45 }

\* Whole seconds from the first call of handle_rate_limit to the reset time
RetrySecondsBeforeReset == {-100, 0, 1, 1741, 3541, 5400}

RetryFirstCalls ==
    { (ResetSeconds - d) * TicksPerSecond + f :
        d \in RetrySecondsBeforeReset, f \in 0..(TicksPerSecond - 1) }

\* What run_agent_session returns as status
RetryStatuses == {"continue", "rate_limit", "error"}

\* A session has returned ("rate_limit", response)
RetryInit ==
    /\ retry_pc = "status"
    /\ session_starts = <<>>
    /\ session_outcomes = <<>>
    /\ response \in RetryInputs
    /\ now \in RetryFirstCalls
    /\ called_at = <<>>
    /\ sleeps = <<>>
    /\ final = FALSE
    /\ TimerIdle
    /\ AutonomousIdle
    /\ ScopeIdle
    /\ FilesIdle
    /\ GateIdle
    /\ DriverIdle
    /\ StoreIdle
    /\ SessionIdle

\* elif status == "rate_limit": await handle_rate_limit(response);
\* iteration -= 1
retry_handle_rate_limit ==
    /\ retry_pc = "status"
    /\ Len(sleeps) < MaxRetries
    /\ LET slept == handle_rate_limit_sleep(response, now) IN
       /\ sleeps' = Append(sleeps, slept)
       /\ now' = time_after_wait(now, slept)
    /\ called_at' = Append(called_at, now)
    /\ final' = ~SleptOneInterval(response, now)
    /\ retry_pc' = "session"
    /\ UNCHANGED <<response, session_starts, session_outcomes>>
    /\ UNCHANGED <<gateVars, fileVars, driverVars, storeVars, sessionVars, scopeVars,
                   autoVars, timerVars>>

\* The next pass of the loop: the session runs under the same number, takes
\* `ticks` and returns `returned`, a rate limit naming the same reset time
\* when it is one
retry_session(ticks, returned) ==
    /\ retry_pc = "session"
    /\ session_starts' = Append(session_starts, now)
    /\ session_outcomes' = Append(session_outcomes, returned)
    /\ now' = now + ticks
    /\ retry_pc' = IF returned = "rate_limit" THEN "status" ELSE "resumed"
    /\ UNCHANGED <<response, called_at, sleeps, final>>
    /\ UNCHANGED <<gateVars, fileVars, driverVars, storeVars, sessionVars, scopeVars,
                   autoVars, timerVars>>

RetryNext ==
    \/ retry_handle_rate_limit
    \/ \E ticks \in SessionTicks, returned \in RetryStatuses : retry_session(ticks, returned)

SpecRetry == RetryInit /\ [][RetryNext]_vars

\* Every step of the loop changes retry_pc, and the loop can take a step
\* exactly where this action is enabled
RetryAdvance ==
    /\ retry_pc \in {"status", "session"}
    /\ retry_pc = "status" => Len(sleeps) < MaxRetries
    /\ retry_pc' \in {"status", "session", "resumed"}
    /\ retry_pc' # retry_pc

\* The driver is one sequential task: a countdown it has begun ends and a
\* session it awaits returns (weak fairness of RetryNext, stated on the
\* position of the loop)
SpecRetryRun == SpecRetry /\ WF_retry_pc(RetryAdvance)

(***************************************************************************)
(* Properties of the security gate                                         *)
(***************************************************************************)

GateDecided == tool_name = "Bash" /\ decision # Pending

\* The submitted command chains two or more simple commands and the program
\* of at least one of them is not in ALLOWED_COMMANDS
ChainsDisallowedProgram ==
    /\ Len(programs) >= 2
    /\ \E i \in 1..Len(programs) : programs[i] \notin ALLOWED_COMMANDS

\* C1: a command string that chains two or more simple commands with ";",
\* "&&" or "||" (with or without surrounding whitespace, arguments quoted or
\* not) is blocked when the program of any one of the chained commands is
\* not in ALLOWED_COMMANDS, whatever the operator and the position.
ChainWithDisallowedProgramIsBlocked ==
    (GateDecided /\ ChainsDisallowedProgram) => decision.decision = "block"

\* How a shell reads the quotes of a text: "" outside quotes, else the open quote
RECURSIVE OpenQuoteAtEnd(_, _)
OpenQuoteAtEnd(s, open) ==
    IF s = <<>> THEN open
    ELSE IF open = ""
         THEN IF Head(s) = "\\" THEN OpenQuoteAtEnd(SubSeqFrom(s, 3), "")
              ELSE IF Head(s) \in Quotes THEN OpenQuoteAtEnd(Tail(s), Head(s))
              ELSE OpenQuoteAtEnd(Tail(s), "")
         ELSE IF Head(s) = open THEN OpenQuoteAtEnd(Tail(s), "")
              ELSE IF open = "\"" /\ Head(s) = "\\"
                   THEN OpenQuoteAtEnd(SubSeqFrom(s, 3), open)
              ELSE OpenQuoteAtEnd(Tail(s), open)

HasUnterminatedQuote(s) == OpenQuoteAtEnd(s, "") # ""

IsBlank(s) == Strip(s) = <<>>

PersistedSessions == DictGet(get_progress(progress_file), "sessions", PyInt(0)).v

\* C3: after any sequence of session outcomes from a fresh start the
\* persisted sessions counter equals the number of sessions that did not end
\* in rate_limit (a rate_limit outcome adds nothing, continue and error add one).
SessionsCountExcludesRateLimited ==
    (fresh_start /\ pc \in {"loop", "summary", "done"})
        => PersistedSessions = sessions_counted

\* Two Python values are equal
SameValue(a, b) == a.py = b.py /\ a = b

IsListOf(value, kind) ==
    /\ value.py = "list"
    /\ \A i \in 1..Len(value.v) : value.v[i].py = kind

\* A record with the documented fields
IsDocumentedRecord(value) ==
    /\ value.py = "dict"
    /\ { value.v[i].k : i \in 1..Len(value.v) }
          = {"status", "criteria", "completed_criteria", "sessions"}
    /\ DictGet(value, "status", PyNone).py = "str"
    /\ DictGet(value, "status", PyNone).v \in ProgressStatuses
    /\ IsListOf(DictGet(value, "criteria", PyNone), "str")
    /\ IsListOf(DictGet(value, "completed_criteria", PyNone), "int")
    /\ DictGet(value, "sessions", PyNone).py = "int"

\* The document holds the JSON text of a documented record
StoresDocumentedRecord(file) ==
    /\ file.kind = "text"
    /\ json_load(file.text).ok
    /\ IsDocumentedRecord(json_load(file.text).value)

\* C9: for a progress document that is absent, unreadable or malformed (no
\* JSON, or JSON that is no record with the documented fields) get_progress
\* returns the default record, and no later use of the loaded value by the
\* driver (reading status, incrementing sessions) raises.
GetProgressYieldsRecord ==
    pc # "idle" =>
        /\ ~StoresDocumentedRecord(progress_file)
              => SameValue(get_progress(progress_file), DefaultProgress)
        /\ fault \notin {"AttributeError", "TypeError"}

\* C10: save_progress(get_progress()) is idempotent: get_progress returns the
\* same record after the round trip as before it, and a second round trip
\* changes neither the stored document nor the loaded record.
RoundTripIsIdempotent ==
    [][ round_trips' = round_trips + 1 =>
            /\ SameValue(get_progress(progress_file'), get_progress(progress_file))
            /\ (round_trips >= 1 => progress_file' = progress_file) ]_vars

\* Two round trips were applied to a document that held no JSON text
MalformedDocumentRoundTripped ==
    /\ round_trips = 2
    /\ original_file.kind = "text"
    /\ ~json_load(original_file.text).ok
    /\ progress_file = TextFile(json_dump(DefaultProgress, 0))

(***************************************************************************)
(* The rate-limit scanner                                                  *)
(***************************************************************************)

\* The text the stream ends with, after the earlier output
TextOfStream == SubSeqFrom(stream, text_start)

\* The session has written its whole stream and has returned
WholeStreamWritten == session_pc = "returned" /\ written = Len(stream)

SessionIsRateLimited ==
    /\ rate_limit_detector.rate_limit_detected
    /\ outcome = "rate_limit"
    /\ classified = 1

\* C4 as stated: a text that matches the structured rate-limit shape, written
\* in any number of chunks after any amount of earlier output, leaves
\* rate_limit_detected true after its last chunk and the session is
\* classified rate_limit exactly once
CutTextIsDetected ==
    (WholeStreamWritten /\ API_ERROR_PATTERN_search(TextOfStream))
        => SessionIsRateLimited

\* C4 amended: the same for a matching text of at most 1000 characters, the
\* tail the detector keeps of its buffer
CutTextWithinTailIsDetected ==
    (/\ WholeStreamWritten
     /\ API_ERROR_PATTERN_search(TextOfStream)
     /\ len(TextOfStream) <= BufferTail)
        => SessionIsRateLimited

\* A matching text of at most 1000 characters was written in several chunks
\* after earlier output, the buffer was cut on the way, and the session is
\* classified rate_limit
CutTextDetectedAfterTrim ==
    /\ WholeStreamWritten
    /\ API_ERROR_PATTERN_search(TextOfStream)
    /\ len(TextOfStream) <= BufferTail
    /\ text_start > 1
    /\ split
    /\ trimmed
    /\ SessionIsRateLimited

\* An error-type marker followed, anywhere later, by a message field whose
\* text contains "reset at" and a YYYY-MM-DD HH:MM:SS timestamp
ContainsStructuredShape(text) ==
    \E i \in 1..Len(text) :
        LET e == KeyValueEnd(text, i, TYPE_KEY, ERROR_VALUE) IN
        /\ e # 0
        /\ \E j \in e..Len(text) :
              LET m == KeyValueEnd(text, j, MESSAGE_KEY, <<"\"">>) IN
              /\ m # 0
              /\ \E k \in m..Len(text) :
                    ResetAt(text, k) /\ NoneBetween(text, m, k, "\"")

\* Nothing written, received or has_raised so far contains the structured shape
NoShapeSoFar ==
    /\ ~ContainsStructuredShape(SubSeq(stream, 1, written))
    /\ \A i \in 1..received : ~ContainsStructuredShape(events[i])
    /\ has_raised => ~ContainsStructuredShape(session_exception.text)

\* C5: while the chunks and events of a session do not contain the
\* structured error shape, rate_limit_detected stays false and the outcome
\* of the session is never rate_limit
NoShapeNoRateLimit ==
    (session_pc # "idle" /\ NoShapeSoFar)
        => (~rate_limit_detector.rate_limit_detected /\ outcome # "rate_limit")

\* The word "error" stands in the text
MentionsError(text) ==
    \E i \in 1..Len(text) :
        LitAt(text, i, <<"r", "r", "o", "r">>)

\* A session whose output and event mention an error, without the
\* structured shape, has returned and is not rate limited
ErrorMentionNotRateLimited ==
    /\ WholeStreamWritten
    /\ MentionsError(stream)
    /\ received = 1
    /\ MentionsError(events[1])
    /\ NoShapeSoFar
    /\ outcome = "continue"

(***************************************************************************)
(* The backoff scheduler                                                   *)
(***************************************************************************)

\* Days of a month of the calendar
CalendarDays(y, m) ==
    CASE m \in {1, 3, 5, 7, 8, 10, 12} -> 31
      [] m \in {4, 6, 9, 11} -> 30
      [] m = 2 -> IF IsLeap(y) THEN 29 ELSE 28
      [] OTHER -> 0

\* The timestamp at position i is a date of the calendar and a time of day
IsCalendarTime(text, i) ==
    /\ Number(text, i, 4) >= 1
    /\ Number(text, i + 8, 2) >= 1
    /\ Number(text, i + 8, 2) <= CalendarDays(Number(text, i, 4), Number(text, i + 5, 2))
    /\ Number(text, i + 11, 2) < 24
    /\ Number(text, i + 14, 2) < 60
    /\ Number(text, i + 17, 2) < 60

\* A reset timestamp can be parsed from the text: its first occurrence of
\* "reset at YYYY-MM-DD HH:MM:SS" is a valid date and time
NamesResetTime(text) ==
    /\ ResetMatches(text) # {}
    /\ \E i \in ResetMatches(text) :
          /\ \A j \in ResetMatches(text) : i <= j
          /\ IsCalendarTime(text, i + Len(RESET_AT))

\* The reset time of the error text, in ticks
ResetTicks == parse_rate_limit_reset_time(response).seconds * TicksPerSecond

RECURSIVE Sum(_)
Sum(s) == IF s = <<>> THEN 0 ELSE Head(s) + Sum(Tail(s))

\* The wait call i computes
WaitOfCall(i) == Max(0, (ResetTicks - called_at[i]) \div TicksPerSecond) + 60

\* Every call but the last slept 1800 seconds and every wait is shorter than
\* the one before
WaitsShrink ==
    /\ \A i \in 1..(Len(sleeps) - 1) : sleeps[i] = 1800
    /\ \A i \in 1..(Len(sleeps) - 1) : WaitOfCall(i + 1) < WaitOfCall(i)

\* 45 minutes before the reset time the sleeps are 1800 s and 960 s
FortyFiveMinutes ==
    (ResetTicks - called_at[1] = 45 * 60 * TicksPerSecond) => sleeps = <<1800, 960>>

\* The calls for a reset time later than the first call have ended
BackoffEnded ==
    /\ final
    /\ NamesResetTime(response)
    /\ ResetTicks > called_at[1]

UnparsableResetSleepsDefault ==
    ~NamesResetTime(response) => \A i \in 1..Len(sleeps) : sleeps[i] = 1800

\* A call whose text holds digits of the timestamp shape that are no valid
\* date has slept 1800 s
InvalidDateSleptDefault ==
    /\ ResetMatches(response) # {}
    /\ ~NamesResetTime(response)
    /\ Len(sleeps) = 1
    /\ sleeps[1] = 1800

(***************************************************************************)
(* Properties of the validators of kill, chmod and pkill and of quoting    *)
(***************************************************************************)

\* The submitted command is one simple command that runs the given program
IsSimpleCommand(name) == programs = <<name>> /\ argv # <<>> /\ argv[1] = name

\* The argument words of the submitted simple command
Arguments == Tail(argv)

\* The submitted kill command has a dash-prefixed word outside allowed_signals
HasOtherSignal ==
    \E i \in 1..Len(Arguments) :
        StartsWith(Arguments[i], "-") /\ Arguments[i] \notin allowed_signals

\* C11: a kill command is allowed only if every dash-prefixed word in it is
\* one of -TERM, -INT, -HUP, -1, -2, -9, -15; any other signal, by name or by
\* number (-KILL, -STOP, -19, -3), makes the gate block the command.
KillWithOtherSignalIsBlocked ==
    (GateDecided /\ IsSimpleCommand(KILL) /\ HasOtherSignal)
        => decision.decision = "block"

\* The submitted kill command has an argument that has no leading dash and
\* is not a number
HasWordArgument ==
    \E i \in 1..Len(Arguments) :
        ~StartsWith(Arguments[i], "-") /\ ~IsDigit(Arguments[i])

HasRejectedFlag ==
    \E i \in 1..Len(Arguments) :
        /\ StartsWith(Arguments[i], "-")
        /\ Arguments[i] \notin allowed_signals
        /\ ~IsDigit(LStripDash(Arguments[i]))

IsPlusXMode(mode) ==
    /\ Len(mode) >= 2
    /\ SubSeq(mode, Len(mode) - 1, Len(mode)) = <<"+", "x">>
    /\ \A i \in 1..(Len(mode) - 2) : mode[i] \in {"u", "g", "o", "a"}

\* C13: a chmod command is accepted exactly when its words are chmod, one
\* mode word of the form [ugoa]*+x, then one or more file words, and no word
\* after chmod starts with "-"; every other form is rejected.
ChmodAcceptedExactlyForPlusX ==
    (GateDecided /\ IsSimpleCommand(CHMOD))
        => /\ decision.decision \in {"allow", "block"}
           /\ decision = Allow
                <=> /\ Len(Arguments) >= 2
                    /\ IsPlusXMode(Arguments[1])
                    /\ \A i \in 1..Len(Arguments) : ~StartsWith(Arguments[i], "-")

\* The first whitespace-delimited word of a word ("" when it has none)
FirstWord(w) ==
    LET words == str_split(w, <<>>, <<>>) IN
    IF words = <<>> THEN <<>> ELSE words[1]

\* C14: a pkill command is accepted exactly when it has a non-flag argument
\* and the last non-flag argument, or its first whitespace-delimited word,
\* is one of the development process names; every other pkill is rejected.
PkillAcceptedExactlyForDevProcess ==
    (GateDecided /\ IsSimpleCommand(PKILL))
        => /\ decision.decision \in {"allow", "block"}
           /\ decision = Allow
                <=> LET args == NonFlagTokens(Arguments) IN
                    /\ args # <<>>
                    /\ \/ args[Len(args)] \in allowed_process_names
                       \/ FirstWord(args[Len(args)]) \in allowed_process_names

\* The word contains ";", "&&" or "||"
HasSeparator(w) ==
    \/ Contains(w, ";")
    \/ \E i \in 1..(Len(w) - 1) : w[i] \in {"&", "|"} /\ w[i + 1] = w[i]

\* C19: a ";", "&&" or "||" inside a quoted span is no segment boundary.  An
\* echo command whose only separators are inside its quoted arguments is one
\* segment for split_command_segments and for extract_commands, and it is
\* allowed as it is without the separator (echo is in ALLOWED_COMMANDS and
\* needs no further validation).
QuotedSeparatorIsNoBoundary ==
    (GateDecided /\ IsSimpleCommand(ECHO)
        /\ \E i \in 1..Len(Arguments) : HasSeparator(Arguments[i]))
        => /\ split_command_segments(command) = <<command>>
           /\ extract_commands(command) = <<ECHO>>
           /\ decision = Allow

(***************************************************************************)
(* Properties of the driver loop, of its start-up and of interrupted runs  *)
(***************************************************************************)

\* The run has a cap
CapIsSet == pc # "idle" /\ max_iterations # 0

\* The loop has ended through the report "Reached max iterations"
ReachedMaxIterations ==
    /\ pc \in {"summary", "done"}
    /\ reached_max_iterations(max_iterations, iteration)

RateLimitedSessions ==
    sessions_started - sessions_counted - (IF pc = "session" THEN 1 ELSE 0)

\* The rate-limited sessions the bound on the sessions of a run leaves room for
MaxRateLimited == MaxSessions - MaxIterationCap

\* The loop has ended because a session returned complete
EndedComplete == pc \in {"summary", "done"} /\ status = "complete"

EntrySelected == pc \notin {"idle", "interrupted"}

\* The run has reached the main loop and no session has begun
AtFirstIteration == pc = "loop" /\ iteration = 0 /\ sessions_started = 0

\* The status and the session count of the persisted progress record
PersistedProgress ==
    LET progress == get_progress(progress_file) IN
    [status   |-> DictGet(progress, "status", PyNone),
     sessions |-> DictGet(progress, "sessions", PyNone)]

\* C16: run_feature_agent enters Continuation exactly when task.md exists at
\* start-up and FreshStart otherwise.  In Continuation the task of the run and
\* of every session prompt is the persisted text, whatever text the caller
\* supplied, and task.md and progress.json are as they were found when the
\* main loop is reached.  In FreshStart task.md holds the supplied text and,
\* when the main loop is reached, the progress record has status in_progress
\* and sessions 0.
EntrySelectionFollowsPersistedTask ==
    EntrySelected =>
        /\ fresh_start <=> entry_task_file.kind # "text"
        /\ ~fresh_start =>
              /\ task = entry_task_file.text
              /\ task_file = entry_task_file
              /\ prompt # NoPrompt => prompt = get_feature_prompt(entry_task_file.text, TRUE)
              /\ AtFirstIteration => progress_file = entry_progress_file
        /\ fresh_start =>
              /\ task = supplied_task
              /\ task_file = TextFile(supplied_task)
              /\ prompt # NoPrompt => prompt = get_feature_prompt(supplied_task, TRUE)
              /\ AtFirstIteration =>
                    PersistedProgress = [status |-> PyStr("in_progress"), sessions |-> PyInt(0)]

\* C16 witness: a session of a continued run was prompted with the persisted
\* task although the caller supplied another text
ContinuationIgnoredSuppliedTask ==
    /\ pc = "handle"
    /\ ~fresh_start
    /\ supplied_task # entry_task_file.text
    /\ prompt = get_feature_prompt(entry_task_file.text, TRUE)
    /\ task_file = entry_task_file

\* A fresh start that found a completed record with one session has reached
\* the main loop
FreshStartOverFinishedRecord ==
    /\ AtFirstIteration
    /\ fresh_start
    /\ DictGet(get_progress(entry_progress_file), "sessions", PyNone) = PyInt(1)
    /\ DictGet(get_progress(entry_progress_file), "status", PyNone) = PyStr("completed")

\* C20: over every sequence of runs on one repository (restarts after an end,
\* a crash or an interrupt, with the same or another task text supplied), no
\* step changes a task.md that exists: save_task runs only when load_task has
\* returned None.
PersistedTaskNeverChanges ==
    [][task_file.kind = "text" => task_file' = task_file]_vars

\* C20 witness: a second run that was given another text than the persisted
\* one has reached its main loop and task.md is as it found it
LaterRunKeptPersistedTask ==
    /\ runs = 2
    /\ pc = "loop"
    /\ entry_task_file.kind = "text"
    /\ supplied_task # entry_task_file.text
    /\ task_file = entry_task_file

\* The documents an interrupted step may leave when every save is all or nothing
WholeDocuments(before, saved) == {before, saved}

\* C17: after an interrupt at any point of the driver, task.md and
\* progress.json each hold their complete previous content or their complete
\* new content, so get_progress after the restart returns the record before
\* the interrupted save or the record being saved.
InterruptLeavesWholeDocuments ==
    pc = "interrupted" =>
        /\ task_file \in WholeDocuments(interrupted.task_before, interrupted.task_written)
        /\ progress_file \in WholeDocuments(interrupted.progress_before,
                                            interrupted.progress_written)
        /\ get_progress(progress_file) \in
               { get_progress(interrupted.progress_before),
                 get_progress(interrupted.progress_written) }

(***************************************************************************)
(* Properties of the scope of the RateLimitDetector                        *)
(***************************************************************************)

\* run_agent_session has been left
SessionLeft == detectors > 0 /\ scope_pc \in {"between", "ended"}

\* Both write targets are the ones found when the session was entered
TargetsAsInstalled ==
    /\ sys_stdout_write = installed.stdout
    /\ sys_stderr_write = installed.stderr

\* No target has been assigned twice by __exit__, and each has been assigned
\* once when the with block was left
RestoredOnce ==
    /\ restored.stdout <= 1
    /\ restored.stderr <= 1
    /\ exit_path \in ExitPaths => restored = [stdout |-> 1, stderr |-> 1]

\* A session starts with the original writes, and no wrapper wraps a wrapper
SessionsStartUnwrapped ==
    /\ scope_pc = "enter_1" => sys_stdout_write = <<>> /\ sys_stderr_write = <<>>
    /\ Len(sys_stdout_write) <= 1
    /\ Len(sys_stderr_write) <= 1

InterruptedInsideScope ==
    exit_path \in {"interrupt in __enter__", "interrupt in __exit__"}

StderrLeftWrapped ==
    /\ scope_pc = "ended"
    /\ sys_stdout_write = <<>>
    /\ sys_stderr_write # <<>>

(***************************************************************************)
(* Properties of the gate on compound commands and of extract_commands     *)
(***************************************************************************)

\* The rule of the invocation's program rejects the invocation taken alone
ViolatesItsRule(part) ==
    \/ part.name = CHMOD /\ ~validate_chmod_command(part.text).allowed
    \/ part.name = KILL /\ ~validate_kill_command(part.text).allowed
    \/ part.name = PKILL /\ ~validate_pkill_command(part.text).allowed

\* The submitted command is a compound command with an invocation of kill,
\* pkill or chmod that violates its rule
HasViolatingInvocation ==
    \E c \in CompoundCommands :
        /\ command = c.text
        /\ \E i \in 1..Len(c.parts) : ViolatesItsRule(c.parts[i])

\* C21: a compound command in which any invocation of kill, pkill or chmod
\* violates its rule is blocked as a whole, also when an earlier invocation of
\* the same program keeps the rule.
ViolatingInvocationBlocksCompound ==
    (GateDecided /\ HasViolatingInvocation) => decision.decision = "block"

\* The submitted command is a sequence of loose words
IsTokenCommand == programs = <<>> /\ argv # <<>>

\* The reserved words of the shell that are no invocations
ReservedWords ==
    {
      <<"i", "f">>, <<"t", "h", "e", "n">>, <<"e", "l", "s", "e">>,
      <<"e", "l", "i", "f">>, <<"f", "i">>, <<"f", "o", "r">>,
      <<"w", "h", "i", "l", "e">>, <<"u", "n", "t", "i", "l">>, <<"d", "o">>,
      <<"d", "o", "n", "e">>, <<"c", "a", "s", "e">>, <<"e", "s", "a", "c">>,
      <<"i", "n">>, <<"!">>, <<"{">>, <<"}">>
    }

\* A command boundary: the ";" between segments or a stand-alone operator
IsBoundary(word) == word \in {<<";">>, <<"|">>, <<"|", "|">>, <<"&", "&">>, <<"&">>}

\* A flag or an assignment NAME=value
IsFlagOrAssignment(word) ==
    \/ StartsWith(word, "-")
    \/ Contains(word, "=") /\ ~StartsWith(word, "=")

\* A word that can name a command
IsCandidate(word) ==
    ~IsBoundary(word) /\ word \notin ReservedWords /\ ~IsFlagOrAssignment(word)

\* Word i is the first candidate after the last boundary before it
IsCommandName(words, i) ==
    /\ IsCandidate(words[i])
    /\ \A j \in 1..(i - 1) :
           IsCandidate(words[j]) => \E k \in (j + 1)..(i - 1) : IsBoundary(words[k])

\* The basenames of the command names among the words, in order
RECURSIVE CommandNames(_, _)
CommandNames(words, i) ==
    IF i > Len(words) THEN <<>>
    ELSE (IF IsCommandName(words, i) THEN <<basename(words[i])>> ELSE <<>>)
             \o CommandNames(words, i + 1)

\* extract_commands returns the basenames of the command names, in order
ExtractsCommandNames ==
    IsTokenCommand => extract_commands(command) = CommandNames(argv, 1)

\* C27 as stated: extract_commands returns, in order, exactly the basenames
\* of the first word after each command boundary that is no reserved word, no
\* flag and no assignment, and no reserved word appears in the result.
ExtractsCommandNamesAndNoReservedWord ==
    /\ ExtractsCommandNames
    /\ IsTokenCommand =>
           \A i \in 1..Len(extract_commands(command)) :
               extract_commands(command)[i] \notin ReservedWords

\* C27 as amended: the same result, and no word that is a reserved word
\* yields an entry: an entry that equals a reserved word is the basename of a
\* word written with a path.
ExtractsCommandNamesAndSkipsReservedWords ==
    /\ ExtractsCommandNames
    /\ IsTokenCommand =>
           \A i \in 1..Len(argv) :
               argv[i] \in ReservedWords => ~IsCommandName(argv, i)
    /\ IsTokenCommand =>
           \A i \in 1..Len(extract_commands(command)) :
               extract_commands(command)[i] \in ReservedWords =>
                   \E j \in 1..Len(argv) :
                       /\ IsCommandName(argv, j)
                       /\ Contains(argv[j], "/")
                       /\ basename(argv[j]) = extract_commands(command)[i]

\* C27 witness: the gate has decided a command in which a reserved word and
\* an assignment stand before the command name, which is written with a path
KeywordAndAssignmentBeforeCommand ==
    /\ GateDecided
    /\ argv = << <<"i", "f">>, <<"A", "=", "1">>, <<"/", "b", "i", "n", "/", "r", "m">> >>
    /\ extract_commands(command) = << <<"r", "m">> >>

(***************************************************************************)
(* Properties of the iteration numbers, the session count and the faults   *)
(* of the driver loop                                                      *)
(***************************************************************************)

\* A session is about to run after an earlier session of the same run
NextSessionReady == pc = "session" /\ previous_number # 0

\* C22: the session after a rate_limit outcome runs under the same iteration
\* number as the rate-limited session, the session after a continue or an
\* error outcome under the next number; the first session runs under number 1,
\* so the numbers never decrease and never skip a value.
SessionNumberFollowsOutcome ==
    /\ (pc = "session" /\ previous_number = 0) => iteration = 1
    /\ NextSessionReady =>
           iteration = previous_number + (IF status = "rate_limit" THEN 0 ELSE 1)

\* C22 witness: the second session of a run was rate-limited and its retry
\* is about to run under the number 2
RetryUnderSameNumber ==
    /\ pc = "session"
    /\ status = "rate_limit"
    /\ previous_number = 2
    /\ iteration = 2
    /\ sessions_started = 3

\* The `sessions` value of a progress document as get_progress reads it
SessionsOf(file) == DictGet(get_progress(file), "sessions", PyInt(0))

\* C26: every write of the progress record by the driver, also in a run
\* resumed after an interrupt, stores a `sessions` value that is not below
\* the value persisted before, and each pass of the loop that starts a
\* session raises it by exactly one.
PersistedSessionsNeverDecrease ==
    [][ /\ (progress_file' # progress_file /\ pc' # "handle") =>
               SessionsOf(progress_file').v >= SessionsOf(progress_file).v
        /\ (pc = "loop" /\ pc' = "session") =>
               SessionsOf(progress_file').v = SessionsOf(progress_file).v + 1 ]_vars

\* The session just run raised an exception that carries no rate-limit
\* evidence, and the driver has not yet run another session
FaultPending == plain_exception /\ pc \in {"handle", "loop"}

\* C28: an exception raised by the query or by the event stream without
\* rate-limit evidence gives the outcome error; the driver sleeps
\* AUTO_CONTINUE_DELAY_SECONDS and goes to the next pass of the loop, which
\* creates a new client and runs the next session unless the cap has been
\* reached; the fault neither ends the loop nor leaves the driver.
FaultIsRetriedWithFreshSession ==
    /\ [](pc = "handle" /\ plain_exception => status = "error")
    /\ [][ (FaultPending /\ pc = "handle") =>
               /\ pc' = "loop"
               /\ delay' = AUTO_CONTINUE_DELAY_SECONDS
               /\ iteration' = iteration
               /\ fault' = "" ]_vars
    /\ [][ (FaultPending /\ pc = "loop") =>
               \/ /\ pc' = "session"
                  /\ clients' = clients + 1
                  /\ iteration' = iteration + 1
               \/ /\ pc' = "summary"
                  /\ reached_max_iterations(max_iterations, iteration + 1) ]_vars

\* C28 witness: after a session that raised without rate-limit evidence the
\* driver has slept the fixed delay and started the next session with a
\* second client
NextSessionAfterFault ==
    /\ pc = "session"
    /\ plain_exception
    /\ status = "error"
    /\ delay = AUTO_CONTINUE_DELAY_SECONDS
    /\ clients = 2
    /\ iteration = 2

(***************************************************************************)
(* Properties of the loop of run_autonomous_agent                          *)
(***************************************************************************)

\* C23: the session that retries a rate-limited session is sent the same
\* kind of prompt as the rate-limited session: a rate-limited first session
\* that was sent the initializer prompt is retried with the initializer prompt.
RetryIsSentSamePrompt ==
    (autonomous_pc = "session" /\ autonomous_status = "rate_limit")
        => autonomous_prompt = previous_prompt

(***************************************************************************)
(* Properties of the RateLimitDetector: the recorded match and the buffer  *)
(***************************************************************************)

\* C24: once rate_limit_detected is true it stays true whatever is written
\* afterwards, and error_message then always holds a text in which
\* API_ERROR_PATTERN finds a match.
DetectionIsSticky ==
    /\ [][rate_limit_detector.rate_limit_detected
              => rate_limit_detector'.rate_limit_detected]_vars
    /\ [](rate_limit_detector.rate_limit_detected
              => API_ERROR_PATTERN_search(rate_limit_detector.error_message))

\* C24 witness: the whole stream has been written, the detector has made a
\* match, and its buffer, cut since, shows no match any more
DetectedAfterMatchLeftBuffer ==
    /\ session_pc = "running"
    /\ written = Len(stream)
    /\ rate_limit_detector.rate_limit_detected
    /\ trimmed
    /\ ~API_ERROR_PATTERN_search(rate_limit_detector.buffer)

\* The chunk the step writes, and the buffer with the chunk appended
WrittenChunk == SubSeq(stream, written + 1, written')
AppendedBuffer == Concat(rate_limit_detector.buffer, WrittenChunk)

\* The step writes a chunk that makes the buffer longer than 2000
TrimStep == written' > written /\ len(AppendedBuffer) > 2000

\* C25: after every chunk the buffer holds at most 2000 characters (a buffer
\* that exceeds 2000 is cut to its last 1000), and the cut changes neither
\* rate_limit_detected nor a recorded error_message: they are what the
\* uncut buffer gives.
BufferIsBoundedAndTrimKeepsRecord ==
    /\ [](len(rate_limit_detector.buffer) <= 2000)
    /\ [][ TrimStep =>
             /\ len(rate_limit_detector'.buffer) = 1000
             /\ IF API_ERROR_PATTERN_search(AppendedBuffer)
                THEN /\ rate_limit_detector'.rate_limit_detected
                     /\ rate_limit_detector'.error_message = AppendedBuffer
                ELSE /\ rate_limit_detector'.rate_limit_detected
                            = rate_limit_detector.rate_limit_detected
                     /\ rate_limit_detector'.error_message
                            = rate_limit_detector.error_message ]_vars

\* C25 witness: a structured error was recorded, and more than 2000
\* characters that match nothing were written after it, so that the buffer
\* was cut without the error in it while the recorded message is kept
TrimmedAfterRecordedMatch ==
    /\ trimmed
    /\ written = Len(stream)
    /\ len(stream) > 2 * 2000
    /\ len(rate_limit_detector.buffer) = 1000
    /\ ~API_ERROR_PATTERN_search(rate_limit_detector.buffer)
    /\ rate_limit_detector.rate_limit_detected
    /\ len(rate_limit_detector.error_message) < len(stream) - 2000

(***************************************************************************)
(* Properties of countdown_timer                                           *)
(***************************************************************************)

\* The display shows the time that is left when the call is about to sleep
DisplayedBeforeSleep ==
    timer_pc = "sleep" =>
        /\ displays = timer_sleeps + 1
        /\ shown = time_str(remaining)

ResetPlusBuffer == ResetTicks + RATE_LIMIT_BUFFER_SECONDS * TicksPerSecond

\* Every session started at or after reset time + 60 s has not been rate
\* limited
NotLimitedAfterBuffer ==
    \A i \in 1..Len(session_starts) :
        session_starts[i] >= ResetPlusBuffer => session_outcomes[i] # "rate_limit"

\* The driver is between a rate_limit outcome and a session that ends
\* otherwise
AwaitingRetry == retry_pc \in {"status", "session"}

\* Every recomputed wait is smaller than the one before
EachWaitSmaller ==
    \A i \in 1..(Len(sleeps) - 1) : WaitOfCall(i + 1) < WaitOfCall(i)

\* No recomputed wait is larger than the one before; it is smaller when the
\* call before was made a second or more before the reset time, and the
\* buffer of 60 s again when not
WaitsNeverGrow ==
    \A i \in 1..(Len(sleeps) - 1) :
        /\ WaitOfCall(i + 1) <= WaitOfCall(i)
        /\ (called_at[i] <= ResetTicks - TicksPerSecond
                => WaitOfCall(i + 1) < WaitOfCall(i))
        /\ (called_at[i] > ResetTicks - TicksPerSecond
                => WaitOfCall(i + 1) = RATE_LIMIT_BUFFER_SECONDS
                   /\ WaitOfCall(i) = RATE_LIMIT_BUFFER_SECONDS)

\* The waits for one reset time are no more than one for each resume
\* interval of the first wait, and one
WaitsAreFew ==
    sleeps # <<>> =>
        Len(sleeps) <= (WaitOfCall(1) + RATE_LIMIT_RESUME_INTERVAL_SECONDS - 1)
                           \div RATE_LIMIT_RESUME_INTERVAL_SECONDS + 1

\* C30 as stated: if every session started at or after reset time + 60 s is
\* not rate limited, then after a rate_limit outcome the driver eventually
\* runs a session whose outcome is not rate_limit, the waits for one reset
\* time are finitely many, and each recomputed wait is smaller than the one
\* before
RetryEndsAndEachWaitIsSmaller ==
    /\ ([]NotLimitedAfterBuffer) => (AwaitingRetry ~> (retry_pc = "resumed"))
    /\ [](NotLimitedAfterBuffer => (WaitsAreFew /\ EachWaitSmaller))

\* C30 amended: under the same condition the driver eventually runs a
\* session whose outcome is not rate_limit and the waits for one reset time
\* are finitely many; each recomputed wait is smaller than the one before
\* while the call before was made a second or more before the reset time,
\* and from then on every wait is the buffer of 60 s
RetryEndsAndWaitsNeverGrow ==
    /\ ([]NotLimitedAfterBuffer) => (AwaitingRetry ~> (retry_pc = "resumed"))
    /\ [](NotLimitedAfterBuffer => (WaitsAreFew /\ WaitsNeverGrow))

\* C30 witness: a rate limit handled half a second before the reset time
\* was followed by a rate-limited session half a second before reset time
\* + 60 s, by a second wait of 60 s, and by a session that ended otherwise
ResumedAfterTwoBufferWaits ==
    /\ retry_pc = "resumed"
    /\ NotLimitedAfterBuffer
    /\ sleeps = <<60, 60>>
    /\ called_at[1] < ResetTicks
    /\ session_outcomes[1] = "rate_limit"
    /\ session_starts[2] >= ResetPlusBuffer

(***************************************************************************)
(* Properties of the driver: completion, the cap, the persisted status     *)
(***************************************************************************)

\* progress.json holds a record whose status is completed
PersistedCompleted ==
    LET done == is_task_complete(progress_file) IN
    ~done.raised /\ done.complete

\* C31: whenever the persisted progress status is completed at the moment a
\* session of run_feature_agent ends, the session outcome is complete and
\* the driver halts without starting another session and without
\* incrementing sessions again, whatever else happened during the session.
CompletedAtSessionEndHalts ==
    /\ [](pc = "handle" /\ PersistedCompleted => status = "complete")
    /\ [][pc = "handle" /\ PersistedCompleted
              => pc' \notin {"loop", "session"}]_vars

\* A run with a cap of one and more has passed its start-up
CapOfOneOrMore == pc # "idle" /\ max_iterations >= 1

\* C32 as stated: with max_iterations = N >= 1, one run of the driver starts
\* at most N sessions in total (creates at most N clients and sends at most
\* N prompts), whatever the outcomes of those sessions are.
RunStartsAtMostCapSessions ==
    CapOfOneOrMore => (clients <= max_iterations /\ sessions_started <= max_iterations)

\* C32 amended: with max_iterations = N >= 1, one run starts at most N
\* sessions that do not end in rate_limit, and one more session for every
\* session that ends in rate_limit; a client is created and a prompt is sent
\* for every session started.
RunStartsCapAndRateLimitedSessions ==
    CapOfOneOrMore =>
        /\ clients = sessions_started
        /\ sessions_counted + (IF pc = "session" THEN 1 ELSE 0) <= max_iterations
        /\ sessions_started <= max_iterations + RateLimitedSessions

\* C32 witness: a run with a cap of one has ended after two sessions, the
\* first of which ended in rate_limit
CapOfOneRanTwoSessions ==
    /\ pc = "done"
    /\ max_iterations = 1
    /\ clients = 2
    /\ RateLimitedSessions = 1
    /\ ReachedMaxIterations

\* The persisted progress status is in_progress or completed
StatusIsActive ==
    PersistedProgress.status \in {PyStr("in_progress"), PyStr("completed")}

\* C33: the agent writing no status but in_progress and completed, in every
\* execution of run_feature_agent on a repository that was empty before the
\* first run, including one resumed after an interruption at any point of an
\* earlier run, the persisted progress status is in_progress or completed,
\* never pending, whenever a session is started.
SessionsStartWithActiveStatus == pc = "session" => StatusIsActive

(***************************************************************************)
(* The reset time the backoff takes from the text a session returns        *)
(***************************************************************************)

\* The timestamp every structured error of the model carries
ErrorResetTime == SomeTime(ResetSeconds)

\* C34: when a session is classified rate_limit, parse_rate_limit_reset_time
\* applied to the text run_agent_session returns yields the timestamp of the
\* structured error that triggered the detection, not the timestamp of
\* another "reset at" phrase of the accumulated output.
BackoffUsesTimeOfTheError ==
    (session_pc = "returned" /\ outcome = "rate_limit")
        => parse_rate_limit_reset_time(returned_text) = ErrorResetTime

\* The session's output began with the other reset phrase
OutputNamedEarlierReset ==
    /\ len(stream) > len(Chars(EARLIER_RESET))
    /\ LastChars(stream, len(stream)) = stream
    /\ SubSeq(stream, 1, Len(Chars(EARLIER_RESET))) = Chars(EARLIER_RESET)

(***************************************************************************)
(* The gate on quoted blank arguments and on commands of several lines     *)
(***************************************************************************)

\* C35: bash_security_hook is total: for every Bash command string it
\* returns a decision, allow or block, and no function it calls raises an
\* exception, also for quoted arguments that are empty or only whitespace.
HookReturnsADecision ==
    decision # Pending => decision.decision \in {"allow", "block"}

\* The hook has decided on a Bash command string of two lines
DecidedOnLines(c) == tool_name = "Bash" /\ command = c.text /\ decision # Pending

\* C36: for a command string of simple commands separated by newlines the
\* hook checks the program of every line: the string is blocked when the
\* program of a line is not in ALLOWED_COMMANDS, and the decision is the one
\* taken when the same commands are separated by ";".
LinesAreCheckedLikeSemicolons ==
    \A c \in LineCommands :
        DecidedOnLines(c) =>
            /\ decision = security_decision("Bash", c.with_semicolon)
            /\ (\E i \in 1..Len(c.lines) : c.lines[i] \notin ALLOWED_COMMANDS)
                   => decision.decision = "block"
====
